---- MODULE Spec2Model ----
(***************************************************************************)
(* Interactive control plane of the live-streaming backend: the stream-key *)
(* manager, the chat engine, the reaction engine, the recording            *)
(* coordinator and the analytics aggregator as state machines.             *)
(*                                                                         *)
(* Time is a shared integer clock `now` (time.Now()); a duration is a      *)
(* number of clock ticks.  A nil time pointer of the Go code is the        *)
(* record None, a set one is Some(t).                                      *)
(***************************************************************************)
EXTENDS Integers, Sequences, FiniteSets, TLC

\* ------------------------------------------------------------------ bounds
\* Last instant of the clock in the runs of the stream-key manager.
KeysMaxTime == 2
\* Number of stream keys GenerateStreamKey may hand out in one run.
MaxKeys == 1
\* Number of stream keys handed out in the runs about the sweep.
MaxSweepKeys == 2
\* Number of RecordViewerJoin calls in the runs about viewers who come
\* back.
MaxRejoins == 3
\* Cap of StreamKey.UsageCount (an unbounded int in the code).
MaxUsage == 1

\* Number of handlers RegisterMessageHandler may add in one run.
MaxHandlers == 1
\* Last instant of the clock in the runs of the chat engine, and in those
\* about its rate limit and slow mode.
ChatMaxTime == 1
RateMaxTime == 2
\* Cap of the length of a chat room's message log.
MaxMessages == 2
\* Messages in the log of a room in the runs with leaves and joins of a
\* muted participant.
MaxMuteLog == 4
\* time.Minute in ticks of the chat runs' clock.
Minute == 1

\* Last instant of the clock in the runs of the reaction engine, and in
\* those about its one-minute window.
ReactMaxTime == 2
WindowMaxTime == 4
\* Cap of the number of reactions accepted in one run.
MaxReactions == 2
\* Number of ReactionRoom objects one run may allocate.
MaxRoomObjs == 1
\* Room objects in the runs of the lazy creation.
MaxLazyObjs == 2
\* Number of SendReaction calls a client issues back to back in one burst.
BurstCalls == 4
\* time.Second and time.Minute in ticks of the reaction runs' clock.
ReactSecond == 3
ReactMinute == 4

\* Last instant of the clock in the runs of the recording coordinator.
VodMaxTime == 2
\* Number of VODRecording objects StartRecording may allocate in one run.
MaxRecordings == 1
\* Number of VODRecording objects in the runs that list recordings.
MaxListed == 2
\* Number of goroutines that run methods of the chat and reaction engines
\* side by side.
NumGoroutines == 2
\* Number of playback sessions StartPlaybackSession may open in one run.
MaxSessions == 1
\* The default retention (30 days) in ticks of the recording runs' clock:
\* longer than a run.
RetentionDays == 3
\* Duration of the recordings that StopRecording is given a length for.
FullDuration == 20

\* Last instant of the clock in the runs of the analytics aggregator.
AnalyticsMaxTime == 1
\* Number of viewer joins the aggregator records in one run.
MaxJoins == 2
\* Cap of the message and reaction totals of an analytics record.
MaxCounted == 1

\* ------------------------------------------------------- source constants
\* updateTopReactors keeps the first ten entries.
TopLimit == 10

\* ---------------------------------------------------------------- helpers
None == [set |-> FALSE, at |-> 0]
Some(t) == [set |-> TRUE, at |-> t]

Streamers == {"alice", "bob"}
KeyIds == 1..MaxKeys
\* expires_in of GenerateStreamKey: absent, or a number of ticks.
TTLChoices == {None, Some(0), Some(1)}
\* metadata of UpdateStreamKeyMetadata.
MetaValues == {"v1"}

ChatRoomNames == {"r1"}
ChatUsers == {"ann", "bob"}
\* Content lengths a sender submits; every room allows the first only.
ContentLengths == {1, 3}
MessageTypes == {"text"}
\* ChatRoomSettings a caller passes to CreateChatRoom.
ChatSettings(m, d) ==
  [MaxMessageLength |-> 2, MaxMessagesPerMin |-> m, SlowModeDelay |-> d,
   EnableBadWords |-> TRUE]
SettingsChoices == {ChatSettings(m, d) : m \in {1, 2}, d \in {0, 1}}
\* duration of BanParticipant and of MuteParticipant, in ticks.
BanDurations == {0, 1, 2}
MuteDurations == {0, 1}
\* limit and beforeTimestamp of GetMessages.
GetLimits == {1, 2}
GetBefores == {None, Some(1)}

ReactRoomNames == {"s1"}
ReactUsers == {"ann", "bob"}
ReactionTypes == {"like", "fire"}
Threads == {"t1", "t2"}
\* ReactionConfig values handed to NewReactionService.
ReactionConfig(perMinute, perSecond, enable) ==
  [MaxReactionsPerMinute |-> perMinute,
   MaxReactionsPerSecond |-> perSecond,
   ReactionTTL           |-> 2,
   EnableRateLimit       |-> enable,
   MaxRecentReactions    |-> 2,
   EnableLeaderboard     |-> TRUE]
ReactionConfigs ==
  {ReactionConfig(m, s, e) : m \in {1, 2}, s \in {1, 2}, e \in BOOLEAN}

AnalyticsRooms == {"r3"}
Viewers == {"alice", "bob"}
\* AnalyticsConfig: what the aggregator reads of it.
AnalyticsConfig(realTime, maxPoints, retention) ==
  [EnableRealTime    |-> realTime,
   MaxTimelinePoints |-> maxPoints,
   RetentionDays     |-> retention]

VodStreamers == {"ann"}
VodViewers == {"bob"}
\* VODConfig: what the coordinator reads of it.
VODConfig(autoPublish, thumbnails, retention) ==
  [AutoPublish          |-> autoPublish,
   GenerateThumbnails   |-> thumbnails,
   DefaultRetentionDays |-> retention,
   SessionTimeout       |-> 1]
\* The configuration NewVODService(nil) builds.
DefaultVODConfig == VODConfig(FALSE, TRUE, RetentionDays)
\* Lengths StopRecording is called with, and positions of heartbeats.
StopDurations == {0, FullDuration}
Positions == {FullDuration \div 2, FullDuration - 1}

VARIABLES
  now,          \* the clock
  keys,         \* StreamKeyManager.keys: key -> StreamKey
  streamerKeys, \* StreamKeyManager.streamerKeys: streamer -> sequence of keys
  issued,       \* how many keys rand.Read has produced so far
  revoked,      \* history: the keys on which RevokeStreamKey has succeeded
  klast         \* history: the call the last step made on the manager, and
                \* its result ("none" once time has passed)

keyVars == <<keys, streamerKeys, issued, revoked, klast>>

VARIABLES
  chatRooms,    \* ChatService.rooms: room name -> ChatRoom
  unmuteTimers, \* the goroutines MuteParticipant started that still sleep
                \* or wait for the room lock: a set of [target, due]
  banMax,       \* history: participant -> latest expiry of any ban so far
  banLast,      \* history: participant -> expiry of the most recent ban
  muteUntil,    \* history, kept by MuteParticipantLogged: participant ->
                \* the latest end of the mutes it was given so far
  clast,        \* history: the call the last step made on the chat engine
  messageHandlers, \* ChatService.messageHandlers: how many are registered
  notifying,    \* the goroutines notifyHandlers started whose handler has
                \* not run yet: a set of [handler, room, pos]
  observed      \* history: handler -> the log positions it was called with

chatVars == <<chatRooms, unmuteTimers, banMax, banLast, muteUntil, clast>>
fanoutVars == <<messageHandlers, notifying, observed>>

VARIABLES
  rconfig,      \* ReactionService.config ([set |-> FALSE] before the
                \* service is constructed)
  rrooms,       \* ReactionService.rooms: room name -> the ReactionRoom
                \* object it points to (an index of rheap)
  rheap,        \* the ReactionRoom objects allocated so far
  rcalls,       \* thread -> the SendReaction call it is running, with the
                \* statement it has reached
  rlast,        \* history: the step the last action made on the engine
  rswept        \* history: the ReactionRoom objects from which a sweep of
                \* CleanupOldReactions has removed a reaction

reactVars == <<rconfig, rrooms, rheap, rcalls, rlast, rswept>>

VARIABLES
  vconfig,            \* VODService.config ([set |-> FALSE] before the
                      \* service is constructed)
  vrecs,              \* the VODRecording objects allocated so far; the id
                      \* of a recording is its position here
  recordings,         \* VODService.recordings: the ids it maps (each to
                      \* the object of that id)
  streamerRecordings, \* VODService.streamerRecordings: streamer ->
                      \* sequence of ids
  playbackSessions,   \* VODService.playbackSessions: id -> session
  vsessionCount,      \* how many sessions have been opened so far
  vtasks,             \* the processRecording goroutines that have not
                      \* finished: id -> "lookup" or "sleep"
  vstarts,            \* the vod/start requests waiting for the encoder:
                      \* the ids they reserved
  vlast               \* history: the step the last action made on the
                      \* coordinator

vodVars == <<vconfig, vrecs, recordings, streamerRecordings,
             playbackSessions, vsessionCount, vtasks, vstarts, vlast>>

VARIABLES
  aconfig,         \* AnalyticsService.config ([set |-> FALSE] before the
                   \* service is constructed)
  streamAnalytics, \* AnalyticsService.streamAnalytics: room -> record
  viewerSessions,  \* AnalyticsService.viewerSessions: room -> viewer ->
                   \* session
  asamplers,       \* the rooms whose updateAnalyticsLoop goroutine runs
  ascript,         \* how many calls the scripted client has made
  aleft,           \* history: the <<room, viewer>> pairs of the calls of
                   \* RecordViewerLeave that succeeded
  alast            \* history: the step the last action made on the
                   \* aggregator

analyticsVars == <<aconfig, streamAnalytics, viewerSessions, asamplers,
                   ascript, aleft, alast>>

VARIABLES
  lpc,          \* goroutine -> the lock operations left of the method it runs
  lheld,        \* goroutine -> the locks it holds, in the order it got them
  lwait         \* goroutine -> it waits in Lock()

lockVars == <<lpc, lheld, lwait>>

\* What the calls on one engine leave alone.
notKeyVars == <<chatVars, fanoutVars, reactVars, vodVars, analyticsVars, lockVars>>
notChatVars == <<keyVars, reactVars, vodVars, analyticsVars, lockVars>>
notReactVars == <<keyVars, chatVars, fanoutVars, vodVars, analyticsVars, lockVars>>
notVodVars == <<keyVars, chatVars, fanoutVars, reactVars, analyticsVars, lockVars>>
notAnalyticsVars == <<keyVars, chatVars, fanoutVars, reactVars, vodVars,
                      lockVars>>
notLockVars == <<keyVars, chatVars, fanoutVars, reactVars, vodVars,
                 analyticsVars>>

vars == <<now, keyVars, chatVars, fanoutVars, reactVars, vodVars,
          analyticsVars, lockVars>>

\* =========================================================================
\* Stream-key manager (src/pkg/streaming/streamkey.go)
\* =========================================================================

\* The StreamKey that GenerateStreamKey builds.
NewStreamKey(owner, ttl, t) ==
  [StreamerID |-> owner,
   IsActive   |-> TRUE,
   ExpiresAt  |-> IF ttl.set THEN Some(t + ttl.at) ELSE None,
   Metadata   |-> "",
   UsageCount |-> 0,
   LastUsedAt |-> None]

\* Remove the first occurrence of k from the sequence s
\* (append(s[:i], s[i+1:]...) at the first i with s[i] = k).
RemoveFirst(s, k) ==
  IF \E i \in 1..Len(s) : s[i] = k
  THEN LET i == CHOOSE j \in 1..Len(s) :
                  s[j] = k /\ \A h \in 1..(j - 1) : s[h] # k
       IN  SubSeq(s, 1, i - 1) \o SubSeq(s, i + 1, Len(s))
  ELSE s

\* Mutant: the expiry test uses "not before" instead of After.
ValidateStreamKey_AtExpiry(ks, k, t) ==
  IF k \notin DOMAIN ks THEN "not_found"
  ELSE IF ~ks[k].IsActive THEN "inactive"
  ELSE IF ks[k].ExpiresAt.set /\ t >= ks[k].ExpiresAt.at THEN "expired"
  ELSE "ok"

\* The outcome of ValidateStreamKey(key) at time t.
ValidateStreamKey(ks, k, t) ==
  IF k \notin DOMAIN ks THEN "not_found"
  ELSE IF ~ks[k].IsActive THEN "inactive"
  ELSE IF ks[k].ExpiresAt.set /\ t > ks[k].ExpiresAt.at THEN "expired"
  ELSE "ok"

\* Mutant: marking a key as used also switches it back on.
MarkKeyAsUsed_Reactivates(ks, k, t) ==
  [ks EXCEPT ![k].UsageCount = @ + 1, ![k].LastUsedAt = Some(t),
             ![k].IsActive = TRUE]

\* The key table after MarkKeyAsUsed(key) at time t (key stored).
MarkKeyAsUsed(ks, k, t) ==
  [ks EXCEPT ![k].UsageCount = @ + 1, ![k].LastUsedAt = Some(t)]

\* The key table after RevokeStreamKey(key) (key stored).
RevokeStreamKey(ks, k) == [ks EXCEPT ![k].IsActive = FALSE]

\* The key table after UpdateStreamKeyMetadata(key, metadata) (key stored).
UpdateStreamKeyMetadata(ks, k, m) == [ks EXCEPT ![k].Metadata = m]

\* The keys CleanupExpiredKeys removes at time t.
ExpiredKeys(ks, t) ==
  {k \in DOMAIN ks : ks[k].ExpiresAt.set /\ t > ks[k].ExpiresAt.at}

\* The key table without the keys of the set gone.
DropKeys(ks, gone) == [k \in DOMAIN ks \ gone |-> ks[k]]

\* Mutant: the sweep leaves the streamer index as it is.
DropIndex_KeepsAll(idx, gone) == idx

\* The streamer index without the keys of the set gone.
DropIndex(idx, gone) ==
  [s \in Streamers |-> SelectSeq(idx[s], LAMBDA k : k \notin gone)]

\* CleanupExpiredKeys at time t: the key table and the index after, and the
\* count it returns.
CleanupExpiredKeys(ks, idx, t) ==
  LET gone == ExpiredKeys(ks, t)
  IN  [keys  |-> DropKeys(ks, gone),
       index |-> DropIndex(idx, gone),
       count |-> Cardinality(gone)]

\* GetActiveStreamCount at time t: active keys used less than window ago.
GetActiveStreamCount(ks, t, window) ==
  Cardinality({k \in DOMAIN ks :
     /\ ks[k].IsActive
     /\ ks[k].LastUsedAt.set
     /\ t - ks[k].LastUsedAt.at < window})

KeysInit ==
  /\ keys = <<>>
  /\ streamerKeys = [s \in Streamers |-> <<>>]
  /\ issued = 0
  /\ revoked = {}
  /\ klast = [op |-> "none", key |-> 0, res |-> "ok"]

\* rand.Read yields a value no earlier call has yielded: key issued + 1.
GenerateStreamKeyOp(owner, ttl) ==
  /\ issued < MaxKeys
  /\ LET k == issued + 1 IN
     /\ keys' = [x \in DOMAIN keys \cup {k} |->
                   IF x = k THEN NewStreamKey(owner, ttl, now) ELSE keys[x]]
     /\ streamerKeys' = [streamerKeys EXCEPT ![owner] = Append(@, k)]
     /\ issued' = k
     /\ klast' = [op |-> "generate", key |-> k, res |-> "ok"]
  /\ UNCHANGED <<now, revoked, notKeyVars>>

ValidateStreamKeyOp(k) ==
  /\ klast' = [op |-> "validate", key |-> k,
               res |-> ValidateStreamKey(keys, k, now)]
  /\ UNCHANGED <<now, keys, streamerKeys, issued, revoked, notKeyVars>>

MarkKeyAsUsedOp(k) ==
  /\ IF k \in DOMAIN keys
     THEN /\ keys[k].UsageCount < MaxUsage
          /\ keys' = MarkKeyAsUsed(keys, k, now)
          /\ klast' = [op |-> "mark_used", key |-> k, res |-> "ok"]
     ELSE /\ keys' = keys
          /\ klast' = [op |-> "mark_used", key |-> k,
                       res |-> "not_found"]
  /\ UNCHANGED <<now, streamerKeys, issued, revoked, notKeyVars>>

\* POST /api/streaming/keys/validate: ValidateStreamKey, answered 401 on
\* any error; a valid key is then marked as used and answered 200. The two
\* calls take the manager's lock one after the other; MarkKeyAsUsed
\* commutes with every call that may come between them, so they are one
\* step here.
HandleValidateStreamKey(k) ==
  /\ LET res == ValidateStreamKey(keys, k, now) IN
     /\ res = "ok" => keys[k].UsageCount < MaxUsage
     /\ keys' = IF res = "ok" THEN MarkKeyAsUsed(keys, k, now) ELSE keys
     /\ klast' = [op |-> "handleValidateStreamKey", key |-> k, res |-> res,
                  status |-> IF res = "ok" THEN 200 ELSE 401]
  /\ UNCHANGED <<now, streamerKeys, issued, revoked, notKeyVars>>

RevokeStreamKeyOp(k) ==
  /\ IF k \in DOMAIN keys
     THEN /\ keys' = RevokeStreamKey(keys, k)
          /\ revoked' = revoked \cup {k}
          /\ klast' = [op |-> "revoke", key |-> k, res |-> "ok"]
     ELSE /\ UNCHANGED <<keys, revoked>>
          /\ klast' = [op |-> "revoke", key |-> k,
                       res |-> "not_found"]
  /\ UNCHANGED <<now, streamerKeys, issued, notKeyVars>>

DeleteStreamKeyOp(k) ==
  /\ IF k \in DOMAIN keys
     THEN /\ keys' = DropKeys(keys, {k})
          /\ streamerKeys' =
               [streamerKeys EXCEPT ![keys[k].StreamerID] = RemoveFirst(@, k)]
          /\ klast' = [op |-> "delete", key |-> k, res |-> "ok"]
     ELSE /\ UNCHANGED <<keys, streamerKeys>>
          /\ klast' = [op |-> "delete", key |-> k,
                       res |-> "not_found"]
  /\ UNCHANGED <<now, issued, revoked, notKeyVars>>

UpdateStreamKeyMetadataOp(k, m) ==
  /\ IF k \in DOMAIN keys
     THEN /\ keys' = UpdateStreamKeyMetadata(keys, k, m)
          /\ klast' = [op |-> "metadata", key |-> k, res |-> "ok"]
     ELSE /\ keys' = keys
          /\ klast' = [op |-> "metadata", key |-> k,
                       res |-> "not_found"]
  /\ UNCHANGED <<now, streamerKeys, issued, revoked, notKeyVars>>

CleanupExpiredKeysOp ==
  /\ LET out == CleanupExpiredKeys(keys, streamerKeys, now) IN
     /\ keys' = out.keys
     /\ streamerKeys' = out.index
     /\ klast' = [op |-> "cleanup", key |-> out.count, res |-> "ok"]
  /\ UNCHANGED <<now, issued, revoked, notKeyVars>>

\* GenerateStreamKey in the runs that hand out up to cap keys.
GenerateStreamKeyWithin(owner, ttl, cap) ==
  /\ issued < cap
  /\ LET k == issued + 1 IN
     /\ keys' = [x \in DOMAIN keys \cup {k} |->
                   IF x = k THEN NewStreamKey(owner, ttl, now) ELSE keys[x]]
     /\ streamerKeys' = [streamerKeys EXCEPT ![owner] = Append(@, k)]
     /\ issued' = k
     /\ klast' = [op |-> "generate", key |-> k, res |-> "ok"]
  /\ UNCHANGED <<now, revoked, notKeyVars>>

\* Time passes.
KeysTick ==
  /\ now < KeysMaxTime
  /\ now' = now + 1
  /\ klast' = [op |-> "none", key |-> 0, res |-> "ok"]
  /\ UNCHANGED <<keys, streamerKeys, issued, revoked, notKeyVars>>

NextKeys ==
  \/ \E o \in Streamers, ttl \in TTLChoices : GenerateStreamKeyOp(o, ttl)
  \/ \E k \in KeyIds : ValidateStreamKeyOp(k)
  \/ \E k \in KeyIds : MarkKeyAsUsedOp(k)
  \/ \E k \in KeyIds : RevokeStreamKeyOp(k)
  \/ \E k \in KeyIds : DeleteStreamKeyOp(k)
  \/ \E k \in KeyIds, m \in MetaValues : UpdateStreamKeyMetadataOp(k, m)
  \/ CleanupExpiredKeysOp
  \/ KeysTick

\* Keys of two owners, with and without an expiry, revoked, deleted and
\* swept.
NextKeysSweep ==
  \/ \E o \in Streamers, ttl \in {None, Some(0)} :
       GenerateStreamKeyWithin(o, ttl, MaxSweepKeys)
  \/ \E k \in 1..MaxSweepKeys : RevokeStreamKeyOp(k)
  \/ \E k \in 1..MaxSweepKeys : DeleteStreamKeyOp(k)
  \/ CleanupExpiredKeysOp
  \/ KeysTick

\* =========================================================================
\* Chat engine (src/unnamed/part_008, lines 15-569)
\* =========================================================================
\* One ChatRoom is a record of Messages (a sequence), Participants (a map
\* identity -> ChatParticipant), Moderators (the identities mapped to true),
\* BannedUsers (a map identity -> ban expiry) and Settings.  A message
\* carries the length of its content; names, which no operation reads, are
\* left out.  Every operation runs its whole body under room.mu.Lock and
\* reads time.Now() inside it, so one operation is one step.

\* f with key k set to v / without key k (Go map assignment and delete).
Put(f, k, v) == [x \in DOMAIN f \cup {k} |-> IF x = k THEN v ELSE f[x]]
Del(f, k) == [x \in DOMAIN f \ {k} |-> f[x]]

NewChatRoom(settings) ==
  [Messages     |-> <<>>,
   Participants |-> <<>>,
   Moderators   |-> {},
   BannedUsers  |-> <<>>,
   Settings     |-> settings]

NewParticipant(isModerator) ==
  [IsModerator |-> isModerator, IsMuted |-> FALSE, MessageCount |-> 0]

\* Mutant: the notice is built without its Timestamp (the zero time).
SystemMessage_ZeroTime(t) ==
  [ID          |-> <<"sys", t, "system">>,
   SenderID    |-> "system",
   Content     |-> 0,
   Timestamp   |-> 0,
   MessageType |-> "join_leave",
   IsDeleted   |-> FALSE,
   IsModerated |-> FALSE]

\* The join/leave notice: ID "sys-<nanos>", sender "system".
SystemMessage(t) ==
  [ID          |-> <<"sys", t, "system">>,
   SenderID    |-> "system",
   Content     |-> 0,
   Timestamp   |-> t,
   MessageType |-> "join_leave",
   IsDeleted   |-> FALSE,
   IsModerated |-> FALSE]

\* The message SendMessage builds: ID "msg-<nanos>-<sender>".
UserMessage(sender, content, kind, t) ==
  [ID          |-> <<"msg", t, sender>>,
   SenderID    |-> sender,
   Content     |-> content,
   Timestamp   |-> t,
   MessageType |-> kind,
   IsDeleted   |-> FALSE,
   IsModerated |-> FALSE]

\* countRecentMessages scans the log backwards from position i and stops at
\* the first message older than the cutoff.
RECURSIVE CountBack(_, _, _, _)
CountBack(msgs, i, sender, cutoff) ==
  IF i = 0 THEN 0
  ELSE IF msgs[i].Timestamp < cutoff THEN 0
  ELSE (IF msgs[i].SenderID = sender THEN 1 ELSE 0)
         + CountBack(msgs, i - 1, sender, cutoff)

\* Mutant: a message exactly one duration old no longer counts.
countRecentMessages_Exclusive(room, sender, duration, t) ==
  CountBack(room.Messages, Len(room.Messages), sender, t - duration + 1)

countRecentMessages(room, sender, duration, t) ==
  CountBack(room.Messages, Len(room.Messages), sender, t - duration)

\* getLastMessage: the position of the sender's last message, 0 for nil.
getLastMessage(room, sender) ==
  LET own == {i \in 1..Len(room.Messages) : room.Messages[i].SenderID = sender}
  IN  IF own = {} THEN 0 ELSE CHOOSE i \in own : \A j \in own : j <= i

\* filterBadWords: replaceWord returns the content as it is.
filterBadWords(content) == content

\* Mutant: a message exactly one delay old still blocks the sender.
slowModeActive_Inclusive(room, sender, t) ==
  LET last == getLastMessage(room, sender) IN
  /\ room.Settings.SlowModeDelay > 0
  /\ last # 0
  /\ t - room.Messages[last].Timestamp <= room.Settings.SlowModeDelay

\* The slow-mode check of SendMessage: the sender's last message is younger
\* than the delay.
slowModeActive(room, sender, t) ==
  LET last == getLastMessage(room, sender) IN
  /\ room.Settings.SlowModeDelay > 0
  /\ last # 0
  /\ t - room.Messages[last].Timestamp < room.Settings.SlowModeDelay

\* notifyHandlers: one goroutine per registered handler for the message at
\* position pos of room r.
notifyHandlers(n, r, pos) == {[handler |-> h, room |-> r, pos |-> pos] : h \in 1..n}

\* Mutant: a ban still holds at the instant it expires.
JoinChatRoom_InclusiveBan(room, p, isModerator, t) ==
  IF p \in DOMAIN room.BannedUsers /\ t <= room.BannedUsers[p]
  THEN [err |-> "banned", room |-> room]
  ELSE [err |-> "ok",
        room |-> [room EXCEPT
          !.BannedUsers  = Del(@, p),
          !.Participants = Put(@, p, NewParticipant(isModerator)),
          !.Moderators   = IF isModerator THEN @ \cup {p} ELSE @,
          !.Messages     = Append(@, [ID |-> <<"sys", t, "system">>,
                             SenderID |-> "system", Content |-> 0,
                             Timestamp |-> t, MessageType |-> "join_leave",
                             IsDeleted |-> FALSE, IsModerated |-> FALSE])]]

\* JoinChatRoom on an existing room at time t: the error and the room after.
JoinChatRoom(room, p, isModerator, t) ==
  IF p \in DOMAIN room.BannedUsers /\ t < room.BannedUsers[p]
  THEN [err |-> "banned", room |-> room]
  ELSE [err |-> "ok",
        room |-> [room EXCEPT
          !.BannedUsers  = Del(@, p),
          !.Participants = Put(@, p, NewParticipant(isModerator)),
          !.Moderators   = IF isModerator THEN @ \cup {p} ELSE @,
          !.Messages     = Append(@, SystemMessage(t))]]

\* LeaveChatRoom on an existing room at time t.
LeaveChatRoom(room, p, t) ==
  IF p \notin DOMAIN room.Participants
  THEN [err |-> "not_in_room", room |-> room]
  ELSE [err |-> "ok",
        room |-> [room EXCEPT
          !.Participants = Del(@, p),
          !.Moderators   = @ \ {p},
          !.Messages     = Append(@, SystemMessage(t))]]

\* SendMessage on an existing room at time t.  The sender's participant
\* record is created before any check, so it stays when a check fails.
SendMessage(room, sender, content, kind, minute, t) ==
  LET r1 == IF sender \in DOMAIN room.Participants THEN room
            ELSE [room EXCEPT
                    !.Participants = Put(@, sender, NewParticipant(FALSE))]
  IN  IF r1.Participants[sender].IsMuted
      THEN [err |-> "muted", room |-> r1]
      ELSE IF content > r1.Settings.MaxMessageLength
      THEN [err |-> "too_long", room |-> r1]
      ELSE IF countRecentMessages(r1, sender, minute, t)
                >= r1.Settings.MaxMessagesPerMin
      THEN [err |-> "rate_limited", room |-> r1]
      ELSE IF slowModeActive(r1, sender, t)
      THEN [err |-> "slow_mode", room |-> r1]
      ELSE [err |-> "ok",
            room |-> [r1 EXCEPT
              !.Messages = Append(@,
                 UserMessage(sender,
                   IF r1.Settings.EnableBadWords
                   THEN filterBadWords(content) ELSE content, kind, t)),
              !.Participants[sender].MessageCount = @ + 1]]

\* Mutant: the message is taken out of the log.
DeleteMessage_Removes(room, id, moderator) ==
  IF moderator \notin room.Moderators
  THEN [err |-> "not_moderator", room |-> room]
  ELSE LET hits == {i \in 1..Len(room.Messages) : room.Messages[i].ID = id}
       IN  IF hits = {}
           THEN [err |-> "not_found", room |-> room]
           ELSE LET i == CHOOSE h \in hits : \A j \in hits : h <= j
                IN  [err |-> "ok",
                     room |-> [room EXCEPT
                       !.Messages = SubSeq(@, 1, i - 1)
                                      \o SubSeq(@, i + 1, Len(@))]]

\* DeleteMessage on an existing room: the first message with the ID is
\* marked.
DeleteMessage(room, id, moderator) ==
  IF moderator \notin room.Moderators
  THEN [err |-> "not_moderator", room |-> room]
  ELSE LET hits == {i \in 1..Len(room.Messages) : room.Messages[i].ID = id}
       IN  IF hits = {}
           THEN [err |-> "not_found", room |-> room]
           ELSE LET i == CHOOSE h \in hits : \A j \in hits : h <= j
                IN  [err |-> "ok",
                     room |-> [room EXCEPT
                       !.Messages[i].IsDeleted = TRUE,
                       !.Messages[i].IsModerated = TRUE]]

\* MuteParticipant on an existing room; a goroutine that lifts the mute is
\* started when the call succeeds with duration > 0.
MuteParticipant(room, target, moderator, duration) ==
  IF moderator \notin room.Moderators
  THEN [err |-> "not_moderator", room |-> room]
  ELSE IF target \notin DOMAIN room.Participants
  THEN [err |-> "not_found", room |-> room]
  ELSE [err |-> "ok",
        room |-> [room EXCEPT !.Participants[target].IsMuted = TRUE]]

\* Mutant: the target is removed before the moderator check.
BanParticipant_BeforeCheck(room, target, moderator, duration, t) ==
  IF moderator \notin room.Moderators
  THEN [err |-> "not_moderator",
        room |-> [room EXCEPT !.Participants = Del(@, target)]]
  ELSE [err |-> "ok",
        room |-> [room EXCEPT
          !.BannedUsers  = Put(@, target, t + duration),
          !.Participants = Del(@, target)]]

\* BanParticipant on an existing room at time t.
BanParticipant(room, target, moderator, duration, t) ==
  IF moderator \notin room.Moderators
  THEN [err |-> "not_moderator", room |-> room]
  ELSE [err |-> "ok",
        room |-> [room EXCEPT
          !.BannedUsers  = Put(@, target, t + duration),
          !.Participants = Del(@, target)]]

\* GetMessages walks the log backwards and collects up to limit messages
\* that are not deleted and, with a before-timestamp, older than it: the
\* positions it returns, newest first.
RECURSIVE CollectBack(_, _, _, _, _)
CollectBack(msgs, i, limit, before, acc) ==
  IF i = 0 \/ Len(acc) >= limit THEN acc
  ELSE CollectBack(msgs, i - 1, limit, before,
         IF (~before.set \/ msgs[i].Timestamp < before.at)
            /\ ~msgs[i].IsDeleted
         THEN Append(acc, i) ELSE acc)

GetMessages(room, limit, before) ==
  CollectBack(room.Messages, Len(room.Messages), limit, before, <<>>)

\* The record of a call: the operation, its room, the participant it is
\* about, the moderator it names, its result and a number (the content
\* length of a send, the number of messages a get returned).
CLast(op, r, who, by, res, n) ==
  [op |-> op, room |-> r, who |-> who, by |-> by, res |-> res, n |-> n]
NoCall == CLast("none", "", "", "", "ok", 0)

\* The end of a participant's mutes: none so far, an instant, or never (a
\* mute with duration 0 has no end).
NeverMuted == [set |-> FALSE, forever |-> FALSE, at |-> 0]
LongerMute(m, duration, t) ==
  IF duration = 0 \/ m.forever
  THEN [set |-> TRUE, forever |-> TRUE, at |-> 0]
  ELSE [set |-> TRUE, forever |-> FALSE,
        at  |-> IF m.set /\ m.at >= t + duration THEN m.at ELSE t + duration]

ChatInit ==
  /\ chatRooms = <<>>
  /\ unmuteTimers = {}
  /\ banMax = [p \in ChatUsers |-> None]
  /\ banLast = [p \in ChatUsers |-> None]
  /\ muteUntil = [p \in ChatUsers |-> NeverMuted]
  /\ clast = NoCall
  /\ messageHandlers = 0
  /\ notifying = {}
  /\ observed = [h \in 1..MaxHandlers |-> <<>>]

\* The log of room r has room for one more message.
LogHasRoom(r) == Len(chatRooms[r].Messages) < MaxMessages

\* The settings CreateChatRoom gives a room whose caller passes none (500
\* characters and 20 messages a minute in the code, 2 and 2 here).
DefaultChatSettings == ChatSettings(2, 0)

\* Mutant: the room is stored whether or not its name is taken.
CreateChatRoom_Overwrites(rooms, r, settings) ==
  [err |-> "ok", rooms |-> Put(rooms, r, NewChatRoom(settings))]

CreateChatRoom(rooms, r, settings) ==
  IF r \in DOMAIN rooms
  THEN [err |-> "already_exists", rooms |-> rooms]
  ELSE [err |-> "ok", rooms |-> Put(rooms, r, NewChatRoom(settings))]

CreateChatRoomOp(r, settings) ==
  /\ LET out == CreateChatRoom(chatRooms, r, settings) IN
     /\ chatRooms' = out.rooms
     /\ clast' = CLast("create", r, "", "", out.err, 0)
  /\ UNCHANGED <<now, unmuteTimers, banMax, banLast, muteUntil, fanoutVars, notChatVars>>

\* POST /api/streaming/chat/create: one call of CreateChatRoom with no
\* settings; the error "chat room already exists" is answered as a success.
\* res is the result of the engine, n the HTTP status of the answer.
HandleCreateChatRoom(r) ==
  /\ LET out == CreateChatRoom(chatRooms, r, DefaultChatSettings) IN
     /\ chatRooms' = out.rooms
     /\ clast' = CLast("handleCreateChatRoom", r, "", "", out.err,
                       IF out.err \in {"ok", "already_exists"} THEN 200 ELSE 500)
  /\ UNCHANGED <<now, unmuteTimers, banMax, banLast, muteUntil, fanoutVars, notChatVars>>

JoinChatRoomOp(r, p, isModerator) ==
  /\ r \in DOMAIN chatRooms
  /\ LET out == JoinChatRoom(chatRooms[r], p, isModerator, now) IN
     /\ LogHasRoom(r) \/ out.err # "ok"
     /\ chatRooms' = [chatRooms EXCEPT ![r] = out.room]
     /\ clast' = CLast("join", r, p, "", out.err, 0)
     /\ notifying' =
          IF out.err = "ok"
          THEN notifying \cup
                 notifyHandlers(messageHandlers, r, Len(out.room.Messages))
          ELSE notifying
  /\ UNCHANGED <<now, unmuteTimers, banMax, banLast, muteUntil, messageHandlers,
                 observed, notChatVars>>

LeaveChatRoomOp(r, p) ==
  /\ r \in DOMAIN chatRooms
  /\ LET out == LeaveChatRoom(chatRooms[r], p, now) IN
     /\ LogHasRoom(r) \/ out.err # "ok"
     /\ chatRooms' = [chatRooms EXCEPT ![r] = out.room]
     /\ clast' = CLast("leave", r, p, "", out.err, 0)
     /\ notifying' =
          IF out.err = "ok"
          THEN notifying \cup
                 notifyHandlers(messageHandlers, r, Len(out.room.Messages))
          ELSE notifying
  /\ UNCHANGED <<now, unmuteTimers, banMax, banLast, muteUntil, messageHandlers,
                 observed, notChatVars>>

SendMessageOp(r, sender, content, kind) ==
  /\ r \in DOMAIN chatRooms
  /\ LET out == SendMessage(chatRooms[r], sender, content, kind, Minute, now) IN
     /\ LogHasRoom(r) \/ out.err # "ok"
     /\ chatRooms' = [chatRooms EXCEPT ![r] = out.room]
     /\ clast' = CLast("send", r, sender, "", out.err, content)
     /\ notifying' =
          IF out.err = "ok"
          THEN notifying \cup
                 notifyHandlers(messageHandlers, r, Len(out.room.Messages))
          ELSE notifying
  /\ UNCHANGED <<now, unmuteTimers, banMax, banLast, muteUntil, messageHandlers,
                 observed, notChatVars>>

\* The IDs a moderator may name: those in the log and one that is not.
KnownIDs(r) ==
  {chatRooms[r].Messages[i].ID : i \in 1..Len(chatRooms[r].Messages)}
    \cup {<<"msg", 0, "nobody">>}

DeleteMessageOp(r, moderator) ==
  /\ r \in DOMAIN chatRooms
  /\ \E id \in KnownIDs(r) :
       LET out == DeleteMessage(chatRooms[r], id, moderator) IN
       /\ chatRooms' = [chatRooms EXCEPT ![r] = out.room]
       /\ clast' = CLast("delete", r, "", moderator, out.err, 0)
  /\ UNCHANGED <<now, unmuteTimers, banMax, banLast, muteUntil, fanoutVars, notChatVars>>

MuteParticipantOp(r, target, moderator, duration) ==
  /\ r \in DOMAIN chatRooms
  /\ LET out == MuteParticipant(chatRooms[r], target, moderator, duration) IN
     /\ chatRooms' = [chatRooms EXCEPT ![r] = out.room]
     /\ unmuteTimers' =
          IF out.err = "ok" /\ duration > 0
          THEN unmuteTimers \cup
                 {[room |-> r, target |-> target, due |-> now + duration]}
          ELSE unmuteTimers
     /\ clast' = CLast("mute", r, target, moderator, out.err, duration)
  /\ UNCHANGED <<now, banMax, banLast, muteUntil, fanoutVars, notChatVars>>

\* The goroutine of MuteParticipant wakes once its sleep is over, takes the
\* room lock and lifts the mute of the target if it is a participant.
UnmuteTimerFires ==
  /\ \E tm \in unmuteTimers :
       /\ now >= tm.due
       /\ unmuteTimers' = unmuteTimers \ {tm}
       /\ chatRooms' =
            IF tm.target \in DOMAIN chatRooms[tm.room].Participants
            THEN [chatRooms EXCEPT
                    ![tm.room].Participants[tm.target].IsMuted = FALSE]
            ELSE chatRooms
       /\ clast' = CLast("unmute_timer", tm.room, tm.target, "", "ok", 0)
  /\ UNCHANGED <<now, banMax, banLast, muteUntil, fanoutVars, notChatVars>>

Later(a, t) == IF a.set /\ a.at >= t THEN a ELSE Some(t)

BanParticipantOp(r, target, moderator, duration) ==
  /\ r \in DOMAIN chatRooms
  /\ LET out == BanParticipant(chatRooms[r], target, moderator, duration, now) IN
     /\ chatRooms' = [chatRooms EXCEPT ![r] = out.room]
     /\ IF out.err = "ok"
        THEN /\ banMax' = [banMax EXCEPT ![target] = Later(@, now + duration)]
             /\ banLast' = [banLast EXCEPT ![target] = Some(now + duration)]
        ELSE UNCHANGED <<banMax, banLast>>
     /\ clast' = CLast("ban", r, target, moderator, out.err, 0)
  /\ UNCHANGED <<now, unmuteTimers, muteUntil, fanoutVars, notChatVars>>

GetMessagesOp(r, limit, before) ==
  /\ r \in DOMAIN chatRooms
  /\ clast' = CLast("get", r, "", "", "ok",
                    Len(GetMessages(chatRooms[r], limit, before)))
  /\ UNCHANGED <<now, chatRooms, unmuteTimers, banMax, banLast, muteUntil, fanoutVars, notChatVars>>

\* RegisterMessageHandler appends a handler to the list.
RegisterMessageHandlerOp ==
  /\ messageHandlers < MaxHandlers
  /\ messageHandlers' = messageHandlers + 1
  /\ clast' = CLast("register", "", "", "", "ok", 0)
  /\ UNCHANGED <<now, chatRooms, unmuteTimers, banMax, banLast, muteUntil, notifying,
                 observed, notChatVars>>

\* One goroutine started by notifyHandlers is scheduled and runs its
\* handler; the Go scheduler picks any of those that wait.
HandlerRuns ==
  /\ \E g \in notifying :
       /\ notifying' = notifying \ {g}
       /\ observed' = [observed EXCEPT ![g.handler] = Append(@, g.pos)]
  /\ clast' = CLast("handler", "", "", "", "ok", 0)
  /\ UNCHANGED <<now, chatRooms, unmuteTimers, banMax, banLast, muteUntil,
                 messageHandlers, notChatVars>>

ChatTick(last) ==
  /\ now < last
  /\ now' = now + 1
  /\ clast' = NoCall
  /\ UNCHANGED <<chatRooms, unmuteTimers, banMax, banLast, muteUntil, fanoutVars, notChatVars>>

\* Every operation of the engine, on a room with the rate limit 2 and slow
\* mode off; ann may join as a moderator, bob is the one muted (with no
\* expiry) and banned.
NextChat ==
  \/ \E r \in ChatRoomNames : CreateChatRoomOp(r, ChatSettings(2, 0))
  \/ \E r \in ChatRoomNames, m \in BOOLEAN : JoinChatRoomOp(r, "ann", m)
  \/ \E r \in ChatRoomNames : JoinChatRoomOp(r, "bob", FALSE)
  \/ \E r \in ChatRoomNames, p \in ChatUsers : LeaveChatRoomOp(r, p)
  \/ \E r \in ChatRoomNames, p \in ChatUsers, k \in MessageTypes :
       SendMessageOp(r, p, 1, k)
  \/ \E r \in ChatRoomNames, m \in ChatUsers : DeleteMessageOp(r, m)
  \/ \E r \in ChatRoomNames, m \in ChatUsers :
       MuteParticipantOp(r, "bob", m, 0)
  \/ \E r \in ChatRoomNames, m \in ChatUsers :
       BanParticipantOp(r, "bob", m, 1)
  \/ \E r \in ChatRoomNames, l \in GetLimits, b \in GetBefores :
       GetMessagesOp(r, l, b)
  \/ ChatTick(ChatMaxTime)

\* The moderation calls, by the moderator ann and by bob who is none, with
\* the mutes that expire.
NextChatMod ==
  \/ \E r \in ChatRoomNames : CreateChatRoomOp(r, ChatSettings(2, 0))
  \/ \E r \in ChatRoomNames : JoinChatRoomOp(r, "ann", TRUE)
  \/ \E r \in ChatRoomNames : JoinChatRoomOp(r, "bob", FALSE)
  \/ \E r \in ChatRoomNames, k \in MessageTypes :
       SendMessageOp(r, "bob", 1, k)
  \/ \E r \in ChatRoomNames, m \in ChatUsers : DeleteMessageOp(r, m)
  \/ \E r \in ChatRoomNames, m \in ChatUsers, d \in MuteDurations :
       MuteParticipantOp(r, "bob", m, d)
  \/ UnmuteTimerFires
  \/ \E r \in ChatRoomNames, m \in ChatUsers :
       BanParticipantOp(r, "bob", m, 1)
  \/ ChatTick(ChatMaxTime)

\* Bans of bob of every duration, and joins.
NextChatBan ==
  \/ \E r \in ChatRoomNames : CreateChatRoomOp(r, ChatSettings(2, 0))
  \/ \E r \in ChatRoomNames : JoinChatRoomOp(r, "ann", TRUE)
  \/ \E r \in ChatRoomNames : JoinChatRoomOp(r, "bob", FALSE)
  \/ \E r \in ChatRoomNames, m \in ChatUsers, d \in BanDurations :
       BanParticipantOp(r, "bob", m, d)
  \/ ChatTick(ChatMaxTime)

\* Rooms of every setting; sends of every length, joins, leaves and mutes.
NextChatRate ==
  \/ \E r \in ChatRoomNames, st \in SettingsChoices : CreateChatRoomOp(r, st)
  \/ \E r \in ChatRoomNames : JoinChatRoomOp(r, "ann", TRUE)
  \/ \E r \in ChatRoomNames : JoinChatRoomOp(r, "bob", FALSE)
  \/ \E r \in ChatRoomNames, p \in ChatUsers : LeaveChatRoomOp(r, p)
  \/ \E r \in ChatRoomNames, p \in ChatUsers, c \in ContentLengths,
        k \in MessageTypes : SendMessageOp(r, p, c, k)
  \/ \E r \in ChatRoomNames, m \in ChatUsers :
       MuteParticipantOp(r, "bob", m, 0)
  \/ ChatTick(RateMaxTime)

\* The status the chat handlers answer a call of the engine with: 200, or
\* http.StatusInternalServerError for every error.
ChatStatus(err) == IF err = "ok" THEN 200 ELSE 500

\* POST /api/streaming/chat/send.
HandleSendChatMessage(r, sender, content, kind) ==
  /\ r \in DOMAIN chatRooms
  /\ LET out == SendMessage(chatRooms[r], sender, content, kind, Minute, now) IN
     /\ LogHasRoom(r) \/ out.err # "ok"
     /\ chatRooms' = [chatRooms EXCEPT ![r] = out.room]
     /\ clast' = CLast("handleSendChatMessage", r, sender, "", out.err,
                       ChatStatus(out.err))
     /\ notifying' =
          IF out.err = "ok"
          THEN notifying \cup
                 notifyHandlers(messageHandlers, r, Len(out.room.Messages))
          ELSE notifying
  /\ UNCHANGED <<now, unmuteTimers, banMax, banLast, muteUntil, messageHandlers,
                 observed, notChatVars>>

\* POST /api/streaming/chat/mute.
HandleMuteParticipant(r, target, moderator, duration) ==
  /\ r \in DOMAIN chatRooms
  /\ LET out == MuteParticipant(chatRooms[r], target, moderator, duration) IN
     /\ chatRooms' = [chatRooms EXCEPT ![r] = out.room]
     /\ unmuteTimers' =
          IF out.err = "ok" /\ duration > 0
          THEN unmuteTimers \cup
                 {[room |-> r, target |-> target, due |-> now + duration]}
          ELSE unmuteTimers
     /\ clast' = CLast("handleMuteParticipant", r, target, moderator,
                       out.err, ChatStatus(out.err))
  /\ UNCHANGED <<now, banMax, banLast, muteUntil, fanoutVars, notChatVars>>

\* POST /api/streaming/chat/ban.
HandleBanParticipant(r, target, moderator, duration) ==
  /\ r \in DOMAIN chatRooms
  /\ LET out == BanParticipant(chatRooms[r], target, moderator, duration, now) IN
     /\ chatRooms' = [chatRooms EXCEPT ![r] = out.room]
     /\ IF out.err = "ok"
        THEN /\ banMax' = [banMax EXCEPT ![target] = Later(@, now + duration)]
             /\ banLast' = [banLast EXCEPT ![target] = Some(now + duration)]
        ELSE UNCHANGED <<banMax, banLast>>
     /\ clast' = CLast("handleBanParticipant", r, target, moderator,
                       out.err, ChatStatus(out.err))
  /\ UNCHANGED <<now, unmuteTimers, muteUntil, fanoutVars, notChatVars>>

\* The HTTP handlers of the keys and of the chat, on rooms with the
\* default settings and with slow mode, called by the moderator ann and
\* by bob who is none.
NextHttp ==
  \/ \E o \in Streamers, ttl \in TTLChoices : GenerateStreamKeyOp(o, ttl)
  \/ \E k \in KeyIds : RevokeStreamKeyOp(k)
  \/ \E k \in KeyIds : HandleValidateStreamKey(k)
  \/ KeysTick
  \/ \E r \in ChatRoomNames : HandleCreateChatRoom(r)
  \/ \E r \in ChatRoomNames : CreateChatRoomOp(r, ChatSettings(2, 1))
  \/ \E r \in ChatRoomNames : JoinChatRoomOp(r, "ann", TRUE)
  \/ \E r \in ChatRoomNames, p \in ChatUsers :
       HandleSendChatMessage(r, p, 1, "text")
  \/ \E r \in ChatRoomNames, m \in ChatUsers :
       HandleMuteParticipant(r, "bob", m, 0)
  \/ \E r \in ChatRoomNames, m \in ChatUsers :
       HandleBanParticipant(r, "bob", m, 1)

\* JoinChatRoom of somebody who is not in the room.
JoinWhenAbsent(r, p) ==
  /\ r \in DOMAIN chatRooms
  /\ p \notin DOMAIN chatRooms[r].Participants
  /\ JoinChatRoomOp(r, p, FALSE)

\* MuteParticipant with a duration that ends within the run.
MuteWithinRun(r, target, moderator, duration) ==
  /\ now + duration <= ChatMaxTime
  /\ MuteParticipantOp(r, target, moderator, duration)

\* Mutes of bob, timed and untimed, in a room he joins once and never
\* leaves.
NextChatMute ==
  \/ \E r \in ChatRoomNames : CreateChatRoomOp(r, ChatSettings(2, 0))
  \/ \E r \in ChatRoomNames : JoinChatRoomOp(r, "ann", TRUE)
  \/ \E r \in ChatRoomNames : JoinWhenAbsent(r, "bob")
  \/ \E r \in ChatRoomNames : SendMessageOp(r, "bob", 1, "text")
  \/ \E r \in ChatRoomNames, m \in ChatUsers, d \in MuteDurations :
       MuteWithinRun(r, "bob", m, d)
  \/ UnmuteTimerFires
  \/ ChatTick(ChatMaxTime)

\* MuteParticipant in the runs that remember, for each participant, until
\* when the mutes given so far last.
MuteParticipantLogged(r, target, moderator, duration) ==
  /\ r \in DOMAIN chatRooms
  /\ LET out == MuteParticipant(chatRooms[r], target, moderator, duration) IN
     /\ chatRooms' = [chatRooms EXCEPT ![r] = out.room]
     /\ unmuteTimers' =
          IF out.err = "ok" /\ duration > 0
          THEN unmuteTimers \cup
                 {[room |-> r, target |-> target, due |-> now + duration]}
          ELSE unmuteTimers
     /\ muteUntil' =
          IF out.err = "ok"
          THEN [muteUntil EXCEPT ![target] = LongerMute(@, duration, now)]
          ELSE muteUntil
     /\ clast' = CLast("mute", r, target, moderator, out.err, duration)
  /\ UNCHANGED <<now, banMax, banLast, fanoutVars, notChatVars>>

\* JoinChatRoom, LeaveChatRoom and SendMessage in a run whose log holds up
\* to cap messages.
JoinChatRoomWithin(r, p, isModerator, cap) ==
  /\ r \in DOMAIN chatRooms
  /\ LET out == JoinChatRoom(chatRooms[r], p, isModerator, now) IN
     /\ Len(chatRooms[r].Messages) < cap \/ out.err # "ok"
     /\ chatRooms' = [chatRooms EXCEPT ![r] = out.room]
     /\ clast' = CLast("join", r, p, "", out.err, 0)
     /\ notifying' =
          IF out.err = "ok"
          THEN notifying \cup
                 notifyHandlers(messageHandlers, r, Len(out.room.Messages))
          ELSE notifying
  /\ UNCHANGED <<now, unmuteTimers, banMax, banLast, muteUntil, messageHandlers,
                 observed, notChatVars>>

LeaveChatRoomWithin(r, p, cap) ==
  /\ r \in DOMAIN chatRooms
  /\ LET out == LeaveChatRoom(chatRooms[r], p, now) IN
     /\ Len(chatRooms[r].Messages) < cap \/ out.err # "ok"
     /\ chatRooms' = [chatRooms EXCEPT ![r] = out.room]
     /\ clast' = CLast("leave", r, p, "", out.err, 0)
     /\ notifying' =
          IF out.err = "ok"
          THEN notifying \cup
                 notifyHandlers(messageHandlers, r, Len(out.room.Messages))
          ELSE notifying
  /\ UNCHANGED <<now, unmuteTimers, banMax, banLast, muteUntil, messageHandlers,
                 observed, notChatVars>>

SendMessageWithin(r, sender, content, kind, cap) ==
  /\ r \in DOMAIN chatRooms
  /\ LET out == SendMessage(chatRooms[r], sender, content, kind, Minute, now) IN
     /\ Len(chatRooms[r].Messages) < cap \/ out.err # "ok"
     /\ chatRooms' = [chatRooms EXCEPT ![r] = out.room]
     /\ clast' = CLast("send", r, sender, "", out.err, content)
     /\ notifying' =
          IF out.err = "ok"
          THEN notifying \cup
                 notifyHandlers(messageHandlers, r, Len(out.room.Messages))
          ELSE notifying
  /\ UNCHANGED <<now, unmuteTimers, banMax, banLast, muteUntil, messageHandlers,
                 observed, notChatVars>>

\* Mutes of bob, timed and untimed, by ann the moderator and by bob, while
\* bob joins, leaves, joins again and sends.
NextChatEvade ==
  \/ \E r \in ChatRoomNames : CreateChatRoomOp(r, ChatSettings(2, 0))
  \/ \E r \in ChatRoomNames : JoinChatRoomWithin(r, "ann", TRUE, MaxMuteLog)
  \/ \E r \in ChatRoomNames : JoinChatRoomWithin(r, "bob", FALSE, MaxMuteLog)
  \/ \E r \in ChatRoomNames : LeaveChatRoomWithin(r, "bob", MaxMuteLog)
  \/ \E r \in ChatRoomNames :
       SendMessageWithin(r, "bob", 1, "text", MaxMuteLog)
  \/ \E r \in ChatRoomNames, m \in ChatUsers, d \in MuteDurations :
       MuteParticipantLogged(r, "bob", m, d)
  \/ UnmuteTimerFires
  \/ ChatTick(ChatMaxTime)

\* Time passes, and a goroutine whose sleep is over gets the room lock.
ChatMuteFairness ==
  WF_vars(ChatTick(ChatMaxTime)) /\ WF_vars(UnmuteTimerFires)

\* Rooms made through the HTTP handler and through the engine (with settings
\* that are not the default ones), and the calls that fill a room.
NextChatCreate ==
  \/ \E r \in ChatRoomNames : HandleCreateChatRoom(r)
  \/ \E r \in ChatRoomNames : CreateChatRoomOp(r, ChatSettings(1, 1))
  \/ \E r \in ChatRoomNames : JoinChatRoomOp(r, "ann", TRUE)
  \/ \E r \in ChatRoomNames : JoinChatRoomOp(r, "bob", FALSE)
  \/ \E r \in ChatRoomNames, p \in ChatUsers : SendMessageOp(r, p, 1, "text")
  \/ \E r \in ChatRoomNames : MuteParticipantOp(r, "bob", "ann", 0)
  \/ \E r \in ChatRoomNames : BanParticipantOp(r, "bob", "ann", 1)
  \/ ChatTick(ChatMaxTime)

\* Listeners: registration, joins, leaves and sends, and the handler
\* goroutines.
NextChatFanout ==
  \/ \E r \in ChatRoomNames : CreateChatRoomOp(r, ChatSettings(2, 0))
  \/ RegisterMessageHandlerOp
  \/ \E r \in ChatRoomNames : JoinChatRoomOp(r, "bob", FALSE)
  \/ \E r \in ChatRoomNames : LeaveChatRoomOp(r, "bob")
  \/ \E r \in ChatRoomNames, p \in ChatUsers, k \in MessageTypes :
       SendMessageOp(r, p, 1, k)
  \/ HandlerRuns
  \/ ChatTick(ChatMaxTime)

\* =========================================================================
\* Reaction engine (src/pkg/streaming/reactions.go)
\* =========================================================================

\* The ReactionRoom that CreateReactionRoom and SendReaction allocate.
NewReactionRoom ==
  [Reactions     |-> <<>>,
   UserReactions |-> <<>>,
   RateLimits    |-> <<>>,
   Stats         |-> [TotalReactions  |-> 0,
                      ReactionCounts  |-> [k \in ReactionTypes |-> 0],
                      TopReactors     |-> <<>>,
                      RecentReactions |-> <<>>]]

\* The Reaction SendReaction builds: ID "reaction-<nanos>-<user>".
NewReaction(user, kind, t) ==
  [ID |-> <<"reaction", t, user>>, UserID |-> user, Type |-> kind,
   Timestamp |-> t]

\* time.Second / time.Duration(MaxReactionsPerSecond), an integer division.
MinGap(cfg) == ReactSecond \div cfg.MaxReactionsPerSecond

\* Mutant: the per-second test is left out.
checkRateLimit_PerMinuteOnly(room, user, cfg, t) ==
  IF user \notin DOMAIN room.RateLimits
  THEN "ok"
  ELSE IF /\ t - room.RateLimits[user].WindowStart < ReactMinute
          /\ room.RateLimits[user].Count >= cfg.MaxReactionsPerMinute
  THEN "per_minute"
  ELSE "ok"

\* Mutant: the per-minute test is left out.
checkRateLimit_PerSecondOnly(room, user, cfg, t) ==
  IF user \in DOMAIN room.RateLimits
     /\ t - room.RateLimits[user].LastReaction < MinGap(cfg)
  THEN "per_second"
  ELSE "ok"

\* checkRateLimit at time t: nil, or which of the two errors.
checkRateLimit(room, user, cfg, t) ==
  IF user \notin DOMAIN room.RateLimits
  THEN "ok"
  ELSE IF t - room.RateLimits[user].LastReaction < MinGap(cfg)
  THEN "per_second"
  ELSE IF /\ t - room.RateLimits[user].WindowStart < ReactMinute
          /\ room.RateLimits[user].Count >= cfg.MaxReactionsPerMinute
  THEN "per_minute"
  ELSE "ok"

\* Mutant: LastReaction is not advanced.
updateRateLimit_KeepsLastReaction(limits, user, t) ==
  LET rl0 == IF user \in DOMAIN limits THEN limits[user]
             ELSE [LastReaction |-> 0, Count |-> 0, WindowStart |-> t]
  IN  Put(limits, user, [rl0 EXCEPT !.Count = @ + 1])

\* updateRateLimit at time t: the RateLimits map after.
updateRateLimit(limits, user, t) ==
  LET rl0 == IF user \in DOMAIN limits THEN limits[user]
             ELSE [LastReaction |-> 0, Count |-> 0, WindowStart |-> t]
      rl1 == IF t - rl0.WindowStart >= ReactMinute
             THEN [rl0 EXCEPT !.WindowStart = t, !.Count = 0]
             ELSE rl0
  IN  Put(limits, user, [rl1 EXCEPT !.LastReaction = t, !.Count = @ + 1])

\* The sort of updateTopReactors: for each i, every later j with a larger
\* count is swapped into place i.
Swap(a, i, j) == [a EXCEPT ![i] = a[j], ![j] = a[i]]

RECURSIVE SortInner(_, _, _)
SortInner(a, i, j) ==
  IF j > Len(a) THEN a
  ELSE SortInner(IF a[j].ReactionCount > a[i].ReactionCount
                 THEN Swap(a, i, j) ELSE a, i, j + 1)

RECURSIVE SortOuter(_, _)
SortOuter(a, i) ==
  IF i > Len(a) THEN a ELSE SortOuter(SortInner(a, i, i + 1), i + 1)

\* The orders in which a range over the map m may visit its keys.
IterationOrders(m) ==
  {o \in [1..Cardinality(DOMAIN m) -> DOMAIN m] :
     \A i, j \in DOMAIN o : i # j => o[i] # o[j]}

\* updateTopReactors when the range over UserReactions visits the users in
\* the given order: Stats.TopReactors after.
updateTopReactors(room, cfg, order) ==
  IF ~cfg.EnableLeaderboard
  THEN room.Stats.TopReactors
  ELSE LET listed == [i \in DOMAIN order |->
                        [UserID        |-> order[i],
                         ReactionCount |-> Len(room.UserReactions[order[i]])]]
           sorted == SortOuter(listed, 1)
       IN  IF Len(sorted) > TopLimit THEN SubSeq(sorted, 1, TopLimit)
           ELSE sorted

\* The part of SendReaction under the room lock, up to the statistics: the
\* reaction is stamped t.
appendReaction(room, user, kind, cfg, t) ==
  LET reaction == NewReaction(user, kind, t)
      recent   == <<reaction>> \o room.Stats.RecentReactions
  IN  [room EXCEPT
         !.Reactions     = Append(@, reaction),
         !.UserReactions = Put(@, user,
                             IF user \in DOMAIN @
                             THEN Append(@[user], reaction)
                             ELSE <<reaction>>),
         !.Stats.TotalReactions = @ + 1,
         !.Stats.ReactionCounts[kind] = @ + 1,
         !.Stats.RecentReactions =
            IF Len(recent) > cfg.MaxRecentReactions
            THEN SubSeq(recent, 1, cfg.MaxRecentReactions)
            ELSE recent]

\* A SendReaction call that runs alone on an existing room, from its check
\* to its return within the instant t: the error and the room after, one
\* outcome for each order of the range over UserReactions.
SendReactionAt(room, user, kind, cfg, t) ==
  LET res == IF cfg.EnableRateLimit
             THEN checkRateLimit(room, user, cfg, t) ELSE "ok"
      r1  == appendReaction(room, user, kind, cfg, t)
  IN  IF res # "ok"
      THEN {[err |-> res, room |-> room]}
      ELSE {[err  |-> "ok",
             room |-> [r1 EXCEPT
                !.Stats.TopReactors = updateTopReactors(r1, cfg, order),
                !.RateLimits = updateRateLimit(@, user, t)]] :
              order \in IterationOrders(r1.UserReactions)}

\* n such calls by one sender, one after the other within the instant t:
\* the room after and the number of calls that succeeded.
RECURSIVE SendReactionsAt(_, _, _, _, _, _)
SendReactionsAt(room, user, kind, cfg, t, n) ==
  IF n = 0
  THEN {[room |-> room, ok |-> 0]}
  ELSE UNION {{[room |-> o.room,
                ok   |-> b.ok + (IF o.err = "ok" THEN 1 ELSE 0)] :
                 o \in SendReactionAt(b.room, user, kind, cfg, t)} :
              b \in SendReactionsAt(room, user, kind, cfg, t, n - 1)}

\* The reactions of a sequence that are younger than the cutoff.
KeepAfter(rs, cutoff) == SelectSeq(rs, LAMBDA x : x.Timestamp > cutoff)

\* Mutant: the sweep also takes the removed reactions out of the totals.
cleanupRoom_DecrementsStats(room, cutoff) ==
  [room EXCEPT
     !.Reactions     = KeepAfter(@, cutoff),
     !.UserReactions = [u \in DOMAIN @ |-> KeepAfter(@[u], cutoff)],
     !.Stats.TotalReactions = Len(KeepAfter(room.Reactions, cutoff))]

\* The sweep of CleanupOldReactions in one room.
cleanupRoom(room, cutoff) ==
  [room EXCEPT
     !.Reactions     = KeepAfter(@, cutoff),
     !.UserReactions = [u \in DOMAIN @ |-> KeepAfter(@[u], cutoff)]]

\* --------------------------------------------------------------- actions
NoConfig == [set |-> FALSE]
Idle == [pc |-> "idle", room |-> "", user |-> "", kind |-> "", obj |-> 0]
RLast(op, th, res, n) == [op |-> op, th |-> th, res |-> res, n |-> n]
NoStep == RLast("none", "", "ok", 0)

\* The reactions accepted so far, over all rooms.
Accepted(heap) ==
  LET RECURSIVE Sum(_)
      Sum(i) == IF i = 0 THEN 0
                ELSE heap[i].Stats.TotalReactions + Sum(i - 1)
  IN  Sum(Len(heap))

\* The calls that have passed the check and not appended yet.
Pending(calls) == Cardinality({th \in Threads : calls[th].pc = "append"})

ReactInit ==
  /\ rconfig = NoConfig
  /\ rrooms = <<>>
  /\ rheap = <<>>
  /\ rcalls = [th \in Threads |-> Idle]
  /\ rlast = NoStep
  /\ rswept = {}

\* NewReactionService(config).
NewReactionServiceOp(cfg) ==
  /\ ~rconfig.set
  /\ rconfig' = [set |-> TRUE, cfg |-> cfg]
  /\ rlast' = RLast("new", "", "ok", 0)
  /\ UNCHANGED <<now, rrooms, rheap, rcalls, rswept, notReactVars>>

CreateReactionRoomOp(r) ==
  /\ rconfig.set
  /\ IF r \in DOMAIN rrooms
     THEN /\ UNCHANGED <<rrooms, rheap>>
          /\ rlast' = RLast("create", "", "already_exists", 0)
     ELSE /\ Len(rheap) < MaxRoomObjs
          /\ rheap' = Append(rheap, NewReactionRoom)
          /\ rrooms' = Put(rrooms, r, Len(rheap) + 1)
          /\ rlast' = RLast("create", "", "ok", 0)
  /\ UNCHANGED <<now, rconfig, rcalls, rswept, notReactVars>>

\* SendReaction, first statement: the lookup under the service read lock.
SendLookup(th, r, user, kind) ==
  /\ rconfig.set
  /\ rcalls[th].pc = "idle"
  /\ rcalls' = [rcalls EXCEPT ![th] =
       [pc   |-> IF r \in DOMAIN rrooms THEN "check" ELSE "create",
        room |-> r, user |-> user, kind |-> kind,
        obj  |-> IF r \in DOMAIN rrooms THEN rrooms[r] ELSE 0]]
  /\ rlast' = RLast("lookup", th, "ok", 0)
  /\ UNCHANGED <<now, rconfig, rrooms, rheap, rswept, notReactVars>>

\* SendReaction, the lazy creation under the service write lock, with its
\* second lookup.
SendCreate(th) ==
  /\ rcalls[th].pc = "create"
  /\ LET r == rcalls[th].room IN
     IF r \in DOMAIN rrooms
     THEN /\ rcalls' = [rcalls EXCEPT ![th].pc = "check",
                                      ![th].obj = rrooms[r]]
          /\ UNCHANGED <<rrooms, rheap>>
     ELSE /\ Len(rheap) < MaxRoomObjs
          /\ rheap' = Append(rheap, NewReactionRoom)
          /\ rrooms' = Put(rrooms, r, Len(rheap) + 1)
          /\ rcalls' = [rcalls EXCEPT ![th].pc = "check",
                                      ![th].obj = Len(rheap) + 1]
  /\ rlast' = RLast("lazy_create", th, "ok", 0)
  /\ UNCHANGED <<now, rconfig, rswept, notReactVars>>

\* SendReaction, the rate-limit check: it reads the sender's RateLimit and
\* the clock before the room write lock is taken.  A failed check ends the
\* call.
SendCheck(th) ==
  /\ rcalls[th].pc = "check"
  /\ LET c   == rcalls[th]
         res == IF rconfig.cfg.EnableRateLimit
                THEN checkRateLimit(rheap[c.obj], c.user, rconfig.cfg, now)
                ELSE "ok"
     IN  /\ res = "ok" => Accepted(rheap) + Pending(rcalls) < MaxReactions
         /\ rcalls' = [rcalls EXCEPT ![th] =
              IF res = "ok" THEN [c EXCEPT !.pc = "append"] ELSE Idle]
         /\ rlast' = RLast("check", th, res, 0)
  /\ UNCHANGED <<now, rconfig, rrooms, rheap, rswept, notReactVars>>

\* SendReaction, the part under the room write lock: the reaction is
\* stamped with one reading of the clock, updateRateLimit takes a later
\* one (dt ticks later), and the range over UserReactions runs in any order.
SendAppend(th, last) ==
  /\ rcalls[th].pc = "append"
  /\ \E dt \in {0, 1} :
       /\ now + dt <= last
       /\ now' = now + dt
       /\ LET c  == rcalls[th]
              r1 == appendReaction(rheap[c.obj], c.user, c.kind,
                                   rconfig.cfg, now)
          IN  \E order \in IterationOrders(r1.UserReactions) :
                rheap' = [rheap EXCEPT ![c.obj] =
                  [r1 EXCEPT
                     !.Stats.TopReactors =
                        updateTopReactors(r1, rconfig.cfg, order),
                     !.RateLimits = updateRateLimit(@, c.user, now + dt)]]
  /\ rcalls' = [rcalls EXCEPT ![th] = Idle]
  /\ rlast' = RLast("send", th, "ok", 0)
  /\ UNCHANGED <<rconfig, rrooms, rswept, notReactVars>>

\* A client sends BurstCalls reactions of one sender to one room, each call
\* after the return of the one before and all of them before the clock
\* moves on (the room is created by the first call if it is missing).
\* rlast keeps the sender and the number of calls that succeeded.
BurstOfSendReaction(r, user, kind) ==
  /\ rconfig.set
  /\ \A th \in Threads : rcalls[th].pc = "idle"
  /\ Accepted(rheap) < MaxReactions
  /\ r \in DOMAIN rrooms \/ Len(rheap) < MaxRoomObjs
  /\ LET obj  == IF r \in DOMAIN rrooms THEN rrooms[r] ELSE Len(rheap) + 1
         heap == IF r \in DOMAIN rrooms THEN rheap
                 ELSE Append(rheap, NewReactionRoom)
     IN  \E out \in SendReactionsAt(heap[obj], user, kind, rconfig.cfg,
                                     now, BurstCalls) :
           /\ rheap' = [heap EXCEPT ![obj] = out.room]
           /\ rrooms' = Put(rrooms, r, obj)
           /\ rlast' = RLast("burst", user, "ok", out.ok)
  /\ UNCHANGED <<now, rconfig, rcalls, rswept, notReactVars>>

\* CleanupOldReactions: every room of the map is swept under the service
\* lock; the result is the number of reactions taken out of the logs.
CleanupOldReactionsOp ==
  /\ rconfig.set
  /\ LET cutoff == now - rconfig.cfg.ReactionTTL
         swept  == [i \in DOMAIN rheap |->
                      IF \E r \in DOMAIN rrooms : rrooms[r] = i
                      THEN cleanupRoom(rheap[i], cutoff) ELSE rheap[i]]
         RECURSIVE Gone(_)
         Gone(i) == IF i = 0 THEN 0
                    ELSE Len(rheap[i].Reactions) - Len(swept[i].Reactions)
                           + Gone(i - 1)
     IN  /\ rheap' = swept
         /\ rlast' = RLast("cleanup", "", "ok", Gone(Len(rheap)))
         /\ rswept' = rswept \cup
              {i \in DOMAIN rheap :
                 Len(swept[i].Reactions) < Len(rheap[i].Reactions)}
  /\ UNCHANGED <<now, rconfig, rrooms, rcalls, notReactVars>>

\* DeleteReactionRoom: the name is taken out of the map; calls that hold
\* the room keep the object.
DeleteReactionRoomOp(r) ==
  /\ rconfig.set
  /\ rrooms' = Del(rrooms, r)
  /\ rlast' = RLast("delete_room", "", "ok", 0)
  /\ UNCHANGED <<now, rconfig, rheap, rcalls, rswept, notReactVars>>

ReactTick(last) ==
  /\ now < last
  /\ now' = now + 1
  /\ rlast' = NoStep
  /\ UNCHANGED <<rconfig, rrooms, rheap, rcalls, rswept, notReactVars>>

\* The engine with one caller: SendReaction calls never overlap.
NextReact ==
  \/ \E s \in {1, 3} : NewReactionServiceOp(ReactionConfig(2, s, TRUE))
  \/ \E r \in ReactRoomNames : CreateReactionRoomOp(r)
  \/ \E r \in ReactRoomNames, u \in ReactUsers :
       SendLookup("t1", r, u, "like")
  \/ SendCreate("t1")
  \/ SendCheck("t1")
  \/ SendAppend("t1", ReactMaxTime)
  \/ CleanupOldReactionsOp
  \/ \E r \in ReactRoomNames : DeleteReactionRoomOp(r)
  \/ ReactTick(ReactMaxTime)

\* Two callers: SendReaction calls of one sender that overlap, under a
\* limit of one or two reactions a minute.
NextReactRace ==
  \/ \E m \in {1, 2} : NewReactionServiceOp(ReactionConfig(m, 3, TRUE))
  \/ \E th \in Threads, r \in ReactRoomNames :
       SendLookup(th, r, "ann", "like")
  \/ \E th \in Threads : SendCreate(th)
  \/ \E th \in Threads : SendCheck(th)
  \/ \E th \in Threads : SendAppend(th, WindowMaxTime)
  \/ ReactTick(WindowMaxTime)

\* Mutant: the creation under the write lock does not look the room up
\* again.
lazyCreate_NoSecondLookup(rooms, heap, r) ==
  [rooms |-> Put(rooms, r, Len(heap) + 1),
   heap  |-> Append(heap, NewReactionRoom),
   obj   |-> Len(heap) + 1]

\* The lazy creation of SendReaction, under the service write lock: the
\* room is looked up again, and made and stored only if it is still
\* missing.
lazyCreate(rooms, heap, r) ==
  IF r \in DOMAIN rooms
  THEN [rooms |-> rooms, heap |-> heap, obj |-> rooms[r]]
  ELSE [rooms |-> Put(rooms, r, Len(heap) + 1),
        heap  |-> Append(heap, NewReactionRoom),
        obj   |-> Len(heap) + 1]

\* The lazy creation in the runs that hold up to cap room objects.
SendCreateWithin(th, cap) ==
  /\ rcalls[th].pc = "create"
  /\ LET out == lazyCreate(rrooms, rheap, rcalls[th].room) IN
     /\ Len(out.heap) <= cap
     /\ rrooms' = out.rooms
     /\ rheap' = out.heap
     /\ rcalls' = [rcalls EXCEPT ![th].pc = "check", ![th].obj = out.obj]
  /\ rlast' = RLast("lazy_create", th, "ok", 0)
  /\ UNCHANGED <<now, rconfig, rswept, notReactVars>>

\* CreateReactionRoom in the same runs.
CreateReactionRoomWithin(r, cap) ==
  /\ rconfig.set
  /\ IF r \in DOMAIN rrooms
     THEN /\ UNCHANGED <<rrooms, rheap>>
          /\ rlast' = RLast("create", "", "already_exists", 0)
     ELSE /\ Len(rheap) < cap
          /\ rheap' = Append(rheap, NewReactionRoom)
          /\ rrooms' = Put(rrooms, r, Len(rheap) + 1)
          /\ rlast' = RLast("create", "", "ok", 0)
  /\ UNCHANGED <<now, rconfig, rcalls, rswept, notReactVars>>

\* Two callers whose SendReaction calls find the room missing, next to
\* CreateReactionRoom.
NextReactLazy ==
  \/ NewReactionServiceOp(ReactionConfig(2, 3, FALSE))
  \/ \E r \in ReactRoomNames : CreateReactionRoomWithin(r, MaxLazyObjs)
  \/ \E th \in Threads, r \in ReactRoomNames, u \in ReactUsers :
       SendLookup(th, r, u, "like")
  \/ \E th \in Threads : SendCreateWithin(th, MaxLazyObjs)
  \/ \E th \in Threads : SendCheck(th)
  \/ \E th \in Threads : SendAppend(th, ReactMaxTime)

\* One caller, both reaction types and the TTL sweep.
NextReactStats ==
  \/ NewReactionServiceOp(ReactionConfig(2, 3, TRUE))
  \/ \E r \in ReactRoomNames : CreateReactionRoomOp(r)
  \/ \E r \in ReactRoomNames, u \in ReactUsers, k \in ReactionTypes :
       SendLookup("t1", r, u, k)
  \/ SendCreate("t1")
  \/ SendCheck("t1")
  \/ SendAppend("t1", ReactMaxTime)
  \/ CleanupOldReactionsOp
  \/ ReactTick(ReactMaxTime)

\* One caller and a clock that runs past the one-minute window.
NextReactWindow ==
  \/ \E m \in {1, 2} : NewReactionServiceOp(ReactionConfig(m, 3, TRUE))
  \/ \E r \in ReactRoomNames, u \in ReactUsers :
       SendLookup("t1", r, u, "like")
  \/ SendCreate("t1")
  \/ SendCheck("t1")
  \/ SendAppend("t1", WindowMaxTime)
  \/ ReactTick(WindowMaxTime)

\* Bursts of calls under the default max_per_second of 3.
NextReactBurst ==
  \/ \E m \in {1, 2} : NewReactionServiceOp(ReactionConfig(m, 3, TRUE))
  \/ \E r \in ReactRoomNames : CreateReactionRoomOp(r)
  \/ \E r \in ReactRoomNames, u \in ReactUsers :
       BurstOfSendReaction(r, u, "like")
  \/ CleanupOldReactionsOp
  \/ ReactTick(ReactMaxTime)

\* =========================================================================
\* Recording coordinator (VODService and the vod/start, vod/stop handlers)
\* =========================================================================
\* The VODRecording StartRecording builds.  ID "rec-<nanos>-<streamer>" is
\* the position the object takes in vrecs; a URL is the pair of its
\* directory and the id, the empty string is <<>>.
NewVODRecording(id, streamer, cfg, t) ==
  [ID                  |-> id,
   StreamerID          |-> streamer,
   Status              |-> "recording",
   RecordedAt          |-> t,
   IsPublic            |-> cfg.AutoPublish,
   PublishedAt         |-> None,
   ExpiresAt           |-> IF cfg.DefaultRetentionDays > 0
                           THEN Some(t + cfg.DefaultRetentionDays)
                           ELSE None,
   VideoURL            |-> <<>>,
   ThumbnailURL        |-> <<>>,
   Duration            |-> 0,
   FileSize            |-> 0,
   ViewCount           |-> 0,
   AverageViewDuration |-> 0,
   EgressID            |-> <<>>]

\* The VODPlaybackSession StartPlaybackSession builds.
NewPlaybackSession(sid, id, user, t) ==
  [ID              |-> sid,
   RecordingID     |-> id,
   UserID          |-> user,
   StartedAt       |-> t,
   LastHeartbeat   |-> t,
   CurrentPosition |-> 0,
   WatchDuration   |-> 0,
   Completed       |-> FALSE]

\* The coordinator's state as one value; each method below maps it to an
\* error ("ok" for nil) and the state after.
VS ==
  [recs               |-> vrecs,
   recordings         |-> recordings,
   streamerRecordings |-> streamerRecordings,
   playbackSessions   |-> playbackSessions,
   sessionCount       |-> vsessionCount,
   tasks              |-> vtasks]

StartRecording(s, cfg, streamer, t) ==
  LET id == Len(s.recs) + 1
  IN  [err |-> "ok", id |-> id,
       vs  |-> [s EXCEPT
                  !.recs = Append(@, NewVODRecording(id, streamer, cfg, t)),
                  !.recordings = @ \cup {id},
                  !.streamerRecordings =
                     Put(@, streamer,
                         IF streamer \in DOMAIN @
                         THEN Append(@[streamer], id) ELSE <<id>>)]]

\* Mutant: the status test is left out.
StopRecording_AnyStatus(s, id, duration, fileSize) ==
  IF id \notin s.recordings
  THEN [err |-> "recording not found", vs |-> s]
  ELSE [err |-> "ok",
        vs  |-> [s EXCEPT !.recs[id].Duration = duration,
                          !.recs[id].FileSize = fileSize,
                          !.recs[id].Status   = "processing",
                          !.tasks = Put(@, id, "lookup")]]

\* StopRecording; `go vs.processRecording` adds a task.
StopRecording(s, id, duration, fileSize) ==
  IF id \notin s.recordings
  THEN [err |-> "recording not found", vs |-> s]
  ELSE IF s.recs[id].Status # "recording"
  THEN [err |-> "recording is not in recording status", vs |-> s]
  ELSE [err |-> "ok",
        vs  |-> [s EXCEPT !.recs[id].Duration = duration,
                          !.recs[id].FileSize = fileSize,
                          !.recs[id].Status   = "processing",
                          !.tasks = Put(@, id, "lookup")]]

\* processRecording up to its sleep: it fetches the object under the lock
\* and returns if the id is not mapped.
processRecordingLookup(s, id) ==
  [s EXCEPT !.tasks = IF id \in s.recordings
                      THEN Put(@, id, "sleep") ELSE Del(@, id)]

\* Mutant: no thumbnail is generated.
processRecordingFinish_NoThumbnail(s, cfg, id, t) ==
  [s EXCEPT
     !.recs[id].VideoURL     = <<"videos", id>>,
     !.recs[id].Status       = "ready",
     !.recs[id].PublishedAt  = IF cfg.AutoPublish THEN Some(t) ELSE @,
     !.tasks = Del(@, id)]

\* processRecording after its sleep: it writes through the pointer it
\* fetched, whatever has happened to the record meanwhile.
processRecordingFinish(s, cfg, id, t) ==
  [s EXCEPT
     !.recs[id].ThumbnailURL = IF cfg.GenerateThumbnails
                               THEN <<"thumbnails", id>> ELSE @,
     !.recs[id].VideoURL     = <<"videos", id>>,
     !.recs[id].Status       = "ready",
     !.recs[id].PublishedAt  = IF cfg.AutoPublish THEN Some(t) ELSE @,
     !.tasks = Del(@, id)]

PublishRecording(s, id, t) ==
  IF id \notin s.recordings
  THEN [err |-> "recording not found", vs |-> s]
  ELSE IF s.recs[id].Status # "ready"
  THEN [err |-> "recording is not ready", vs |-> s]
  ELSE [err |-> "ok",
        vs  |-> [s EXCEPT !.recs[id].IsPublic    = TRUE,
                          !.recs[id].PublishedAt = Some(t)]]

\* Mutant: the id is taken out of the catalog only.
DeleteRecording_KeepsIndex(s, id) ==
  IF id \notin s.recordings
  THEN [err |-> "recording not found", vs |-> s]
  ELSE [err |-> "ok",
        vs  |-> [s EXCEPT !.recs[id].Status = "deleted",
                          !.recordings = @ \ {id}]]

DeleteRecording(s, id) ==
  IF id \notin s.recordings
  THEN [err |-> "recording not found", vs |-> s]
  ELSE LET streamer == s.recs[id].StreamerID
       IN  [err |-> "ok",
            vs  |-> [s EXCEPT
                       !.recs[id].Status = "deleted",
                       !.streamerRecordings =
                          IF streamer \in DOMAIN @
                          THEN [@ EXCEPT ![streamer] = RemoveFirst(@, id)]
                          ELSE @,
                       !.recordings = @ \ {id}]]

\* The ids CleanupExpiredRecordings removes at time t.
Expired(s, t) ==
  {id \in s.recordings :
     s.recs[id].ExpiresAt.set /\ t > s.recs[id].ExpiresAt.at}

\* CleanupExpiredRecordings: the streamer index is not touched.
CleanupExpiredRecordings(s, t) ==
  [s EXCEPT
     !.recs = [id \in DOMAIN @ |->
                 IF id \in Expired(s, t)
                 THEN [@[id] EXCEPT !.Status = "deleted"] ELSE @[id]],
     !.recordings = @ \ Expired(s, t)]

\* Mutant: the status and visibility tests are left out.
StartPlaybackSession_AnyRecord(s, id, user, t) ==
  IF id \notin s.recordings
  THEN [err |-> "recording not found", vs |-> s]
  ELSE LET sid == s.sessionCount + 1
       IN  [err |-> "ok",
            vs  |-> [s EXCEPT
                       !.playbackSessions =
                          Put(@, sid, NewPlaybackSession(sid, id, user, t)),
                       !.sessionCount = sid,
                       !.recs[id].ViewCount = @ + 1]]

\* StartPlaybackSession; ID "session-<nanos>-<user>" is the number of the
\* session.
StartPlaybackSession(s, id, user, t) ==
  IF id \notin s.recordings
  THEN [err |-> "recording not found", vs |-> s]
  ELSE IF s.recs[id].Status # "ready"
  THEN [err |-> "recording is not ready for playback", vs |-> s]
  ELSE IF ~s.recs[id].IsPublic
  THEN [err |-> "recording is not public", vs |-> s]
  ELSE LET sid == s.sessionCount + 1
       IN  [err |-> "ok",
            vs  |-> [s EXCEPT
                       !.playbackSessions =
                          Put(@, sid, NewPlaybackSession(sid, id, user, t)),
                       !.sessionCount = sid,
                       !.recs[id].ViewCount = @ + 1]]

\* float64(position) >= float64(duration) * 0.95, for the positions and
\* durations of the runs (multiples of a tick, where the product is exact).
Watched95(position, duration) == 20 * position >= 19 * duration

\* Mutant: completed follows the position of the last heartbeat.
UpdatePlaybackSession_Unlatched(s, sid, position, t) ==
  IF sid \notin DOMAIN s.playbackSessions
  THEN [err |-> "session not found", vs |-> s]
  ELSE LET session == s.playbackSessions[sid]
           rid     == session.RecordingID
       IN  [err |-> "ok",
            vs  |-> [s EXCEPT
                       !.playbackSessions[sid] =
                          [session EXCEPT
                             !.LastHeartbeat   = t,
                             !.CurrentPosition = position,
                             !.WatchDuration   = t - session.StartedAt,
                             !.Completed =
                                /\ rid \in s.recordings
                                /\ s.recs[rid].Duration > 0
                                /\ Watched95(position,
                                             s.recs[rid].Duration)]]]

UpdatePlaybackSession(s, sid, position, t) ==
  IF sid \notin DOMAIN s.playbackSessions
  THEN [err |-> "session not found", vs |-> s]
  ELSE LET session == s.playbackSessions[sid]
           rid     == session.RecordingID
           done    == /\ rid \in s.recordings
                      /\ s.recs[rid].Duration > 0
                      /\ Watched95(position, s.recs[rid].Duration)
       IN  [err |-> "ok",
            vs  |-> [s EXCEPT
                       !.playbackSessions[sid] =
                          [session EXCEPT
                             !.LastHeartbeat   = t,
                             !.CurrentPosition = position,
                             !.WatchDuration   = t - session.StartedAt,
                             !.Completed = IF done THEN TRUE ELSE @]]]

\* EndPlaybackSession: the running mean, then the session is removed.
EndPlaybackSession(s, sid) ==
  IF sid \notin DOMAIN s.playbackSessions
  THEN [err |-> "session not found", vs |-> s]
  ELSE LET session == s.playbackSessions[sid]
           rid     == session.RecordingID
           n       == s.recs[rid].ViewCount
           mean    == (s.recs[rid].AverageViewDuration * (n - 1)
                         + session.WatchDuration) \div n
       IN  [err |-> "ok",
            vs  |-> [s EXCEPT
                       !.recs[rid].AverageViewDuration =
                          IF rid \in s.recordings /\ n > 0 THEN mean ELSE @,
                       !.playbackSessions = Del(@, sid)]]

CleanupStaleSessions(s, cfg, t) ==
  [s EXCEPT
     !.playbackSessions =
        [sid \in {x \in DOMAIN @ :
                    ~(t - @[x].LastHeartbeat > cfg.SessionTimeout)}
           |-> @[sid]]]

\* --------------------------------------------------------------- actions
VLast(op, id, res, arg) == [op |-> op, id |-> id, res |-> res, arg |-> arg]
NoVodStep == VLast("none", 0, "ok", 0)

VodInit ==
  /\ vconfig = NoConfig
  /\ vrecs = <<>>
  /\ recordings = {}
  /\ streamerRecordings = <<>>
  /\ playbackSessions = <<>>
  /\ vsessionCount = 0
  /\ vtasks = <<>>
  /\ vstarts = {}
  /\ vlast = NoVodStep

\* The state after a method: every part of VS, from the value it returns.
Commit(s) ==
  /\ vrecs' = s.recs
  /\ recordings' = s.recordings
  /\ streamerRecordings' = s.streamerRecordings
  /\ playbackSessions' = s.playbackSessions
  /\ vsessionCount' = s.sessionCount
  /\ vtasks' = s.tasks

NewVODServiceOp(cfg) ==
  /\ ~vconfig.set
  /\ vconfig' = [set |-> TRUE, cfg |-> cfg]
  /\ vlast' = VLast("new", 0, "ok", 0)
  /\ UNCHANGED <<now, vrecs, recordings, streamerRecordings,
                 playbackSessions, vsessionCount, vtasks, vstarts,
                 notVodVars>>

StartRecordingOp(streamer) ==
  /\ vconfig.set
  /\ Len(vrecs) < MaxRecordings
  /\ LET out == StartRecording(VS, vconfig.cfg, streamer, now)
     IN  /\ Commit(out.vs)
         /\ vlast' = VLast("start", out.id, out.err, 0)
  /\ UNCHANGED <<now, vconfig, vstarts, notVodVars>>

StopRecordingOp(id, duration) ==
  /\ vconfig.set
  /\ LET out == StopRecording(VS, id, duration, duration)
     IN  /\ Commit(out.vs)
         /\ vlast' = VLast("stop", id, out.err, duration)
  /\ UNCHANGED <<now, vconfig, vstarts, notVodVars>>

\* The first statements of a processRecording goroutine.
ProcessRecordingLookup(id) ==
  /\ id \in DOMAIN vtasks
  /\ vtasks[id] = "lookup"
  /\ Commit(processRecordingLookup(VS, id))
  /\ vlast' = VLast("process_lookup", id, "ok", 0)
  /\ UNCHANGED <<now, vconfig, vstarts, notVodVars>>

\* The goroutine wakes from its sleep and takes the lock.
ProcessRecordingFinish(id) ==
  /\ id \in DOMAIN vtasks
  /\ vtasks[id] = "sleep"
  /\ Commit(processRecordingFinish(VS, vconfig.cfg, id, now))
  /\ vlast' = VLast("process_finish", id, "ok", 0)
  /\ UNCHANGED <<now, vconfig, vstarts, notVodVars>>

PublishRecordingOp(id) ==
  /\ vconfig.set
  /\ LET out == PublishRecording(VS, id, now)
     IN  /\ Commit(out.vs)
         /\ vlast' = VLast("publish", id, out.err, 0)
  /\ UNCHANGED <<now, vconfig, vstarts, notVodVars>>

DeleteRecordingOp(id) ==
  /\ vconfig.set
  /\ LET out == DeleteRecording(VS, id)
     IN  /\ Commit(out.vs)
         /\ vlast' = VLast("delete", id, out.err, 0)
  /\ UNCHANGED <<now, vconfig, vstarts, notVodVars>>

\* The page ListRecordingsByStreamer returns, as the IDs of its records:
\* the entries start..end-1 of the streamer's index (Go counts from 0) that
\* are in the catalog, in the order of the index.
ListRecordingsByStreamer(s, streamer, limit, offset) ==
  IF streamer \notin DOMAIN s.streamerRecordings
  THEN <<>>
  ELSE LET recordingIDs == s.streamerRecordings[streamer]
           start == offset
           end == IF start + limit > Len(recordingIDs)
                  THEN Len(recordingIDs) ELSE start + limit
       IN  IF start >= Len(recordingIDs)
           THEN <<>>
           ELSE SelectSeq(SubSeq(recordingIDs, start + 1, end),
                          LAMBDA id : id \in s.recordings)

\* StartRecording in the runs that hold up to cap recordings.
StartRecordingWithin(streamer, cap) ==
  /\ vconfig.set
  /\ Len(vrecs) < cap
  /\ LET out == StartRecording(VS, vconfig.cfg, streamer, now)
     IN  /\ Commit(out.vs)
         /\ vlast' = VLast("start", out.id, out.err, 0)
  /\ UNCHANGED <<now, vconfig, vstarts, notVodVars>>

ListRecordingsByStreamerOp(streamer, limit, offset) ==
  /\ vconfig.set
  /\ vlast' = VLast("list", 0, "ok",
                    [owner |-> streamer, limit |-> limit, offset |-> offset,
                     page |-> ListRecordingsByStreamer(VS, streamer,
                                                       limit, offset)])
  /\ UNCHANGED <<now, vconfig, vrecs, recordings, streamerRecordings,
                 playbackSessions, vsessionCount, vtasks, vstarts,
                 notVodVars>>

CleanupExpiredRecordingsOp ==
  /\ vconfig.set
  /\ Commit(CleanupExpiredRecordings(VS, now))
  /\ vlast' = VLast("cleanup", 0, "ok", Cardinality(Expired(VS, now)))
  /\ UNCHANGED <<now, vconfig, vstarts, notVodVars>>

StartPlaybackSessionOp(id, user) ==
  /\ vconfig.set
  /\ vsessionCount < MaxSessions
  /\ LET out == StartPlaybackSession(VS, id, user, now)
     IN  /\ Commit(out.vs)
         /\ vlast' = VLast("play", id, out.err, 0)
  /\ UNCHANGED <<now, vconfig, vstarts, notVodVars>>

UpdatePlaybackSessionOp(sid, position) ==
  /\ vconfig.set
  /\ LET out == UpdatePlaybackSession(VS, sid, position, now)
     IN  /\ Commit(out.vs)
         /\ vlast' = VLast("heartbeat", sid, out.err, position)
  /\ UNCHANGED <<now, vconfig, vstarts, notVodVars>>

EndPlaybackSessionOp(sid) ==
  /\ vconfig.set
  /\ LET out == EndPlaybackSession(VS, sid)
     IN  /\ Commit(out.vs)
         /\ vlast' = VLast("end", sid, out.err, 0)
  /\ UNCHANGED <<now, vconfig, vstarts, notVodVars>>

CleanupStaleSessionsOp ==
  /\ vconfig.set
  /\ Commit(CleanupStaleSessions(VS, vconfig.cfg, now))
  /\ vlast' = VLast("cleanup_sessions", 0, "ok", 0)
  /\ UNCHANGED <<now, vconfig, vstarts, notVodVars>>

\* handleStartRecording up to its call of the encoder: the reservation.
HandleStartRecordingReserve(streamer) ==
  /\ vconfig.set
  /\ Len(vrecs) < MaxRecordings
  /\ LET out == StartRecording(VS, vconfig.cfg, streamer, now)
     IN  /\ Commit(out.vs)
         /\ vstarts' = vstarts \cup {out.id}
         /\ vlast' = VLast("handle_start", out.id, "reserved", 0)
  /\ UNCHANGED <<now, vconfig, notVodVars>>

\* handleStartRecording from the encoder's answer on: on an error the
\* reservation is deleted (the error of DeleteRecording is dropped) and
\* the request fails; otherwise UpdateRecordingMetadata is called with
\* nothing to change and the egress id is written into the record the
\* handler holds.
HandleStartRecordingEncoder(id, started) ==
  /\ id \in vstarts
  /\ vstarts' = vstarts \ {id}
  /\ IF started
     THEN /\ Commit([VS EXCEPT !.recs[id].EgressID = <<"egress", id>>])
          /\ vlast' = VLast("handle_start", id, "ok", 0)
     ELSE /\ Commit(DeleteRecording(VS, id).vs)
          /\ vlast' = VLast("handle_start", id, "egress_failed", 0)
  /\ UNCHANGED <<now, vconfig, notVodVars>>

\* handleStopRecording with a recording id: the encoder's stop, if an
\* egress id came with the request, succeeds or fails (the error is
\* logged), then StopRecording(id, 0, 0).
HandleStopRecording(id, egress) ==
  /\ vconfig.set
  /\ LET out == StopRecording(VS, id, 0, 0)
     IN  /\ Commit(out.vs)
         /\ vlast' = VLast("handle_stop", id, out.err, egress)
  /\ UNCHANGED <<now, vconfig, vstarts, notVodVars>>

VodTick(last) ==
  /\ now < last
  /\ now' = now + 1
  /\ vlast' = NoVodStep
  /\ UNCHANGED <<vconfig, vrecs, recordings, streamerRecordings,
                 playbackSessions, vsessionCount, vtasks, vstarts,
                 notVodVars>>

\* The service's methods under a configuration with a short retention,
\* with and without auto-publish.
NextVod ==
  \/ \E a \in BOOLEAN : NewVODServiceOp(VODConfig(a, TRUE, 1))
  \/ \E st \in VodStreamers : StartRecordingOp(st)
  \/ \E id \in 1..MaxRecordings : StopRecordingOp(id, FullDuration)
  \/ \E id \in 1..MaxRecordings : ProcessRecordingLookup(id)
  \/ \E id \in 1..MaxRecordings : ProcessRecordingFinish(id)
  \/ \E id \in 1..MaxRecordings : PublishRecordingOp(id)
  \/ \E id \in 1..MaxRecordings : DeleteRecordingOp(id)
  \/ CleanupExpiredRecordingsOp
  \/ VodTick(VodMaxTime)

\* Stopping, directly and through vod/stop, under the default
\* configuration.
NextVodStop ==
  \/ NewVODServiceOp(DefaultVODConfig)
  \/ \E st \in VodStreamers : StartRecordingOp(st)
  \/ \E id \in 1..MaxRecordings, d \in StopDurations : StopRecordingOp(id, d)
  \/ \E id \in 1..MaxRecordings, e \in {"none", "ok", "failed"} :
       HandleStopRecording(id, e)
  \/ \E id \in 1..MaxRecordings : ProcessRecordingLookup(id)
  \/ \E id \in 1..MaxRecordings : ProcessRecordingFinish(id)
  \/ \E id \in 1..MaxRecordings : DeleteRecordingOp(id)
  \/ VodTick(VodMaxTime)

\* The vod/start and vod/stop requests of the API service, whose
\* coordinator is NewVODService(nil), next to deletions and sweeps.
NextVodHandlers ==
  \/ NewVODServiceOp(DefaultVODConfig)
  \/ \E st \in VodStreamers : HandleStartRecordingReserve(st)
  \/ \E id \in 1..MaxRecordings, ok \in BOOLEAN :
       HandleStartRecordingEncoder(id, ok)
  \/ \E id \in 1..MaxRecordings, e \in {"none", "ok", "failed"} :
       HandleStopRecording(id, e)
  \/ \E id \in 1..MaxRecordings : ProcessRecordingLookup(id)
  \/ \E id \in 1..MaxRecordings : ProcessRecordingFinish(id)
  \/ \E id \in 1..MaxRecordings : DeleteRecordingOp(id)
  \/ CleanupExpiredRecordingsOp
  \/ VodTick(VodMaxTime)

\* The same requests at one instant of the clock, for the progress of
\* post-processing: its delay is the distance between the two steps of the
\* goroutine.
NextVodLive ==
  \/ NewVODServiceOp(DefaultVODConfig)
  \/ \E st \in VodStreamers : HandleStartRecordingReserve(st)
  \/ \E id \in 1..MaxRecordings, ok \in BOOLEAN :
       HandleStartRecordingEncoder(id, ok)
  \/ \E id \in 1..MaxRecordings, e \in {"none", "ok", "failed"} :
       HandleStopRecording(id, e)
  \/ \E id \in 1..MaxRecordings : ProcessRecordingLookup(id)
  \/ \E id \in 1..MaxRecordings : ProcessRecordingFinish(id)
  \/ \E id \in 1..MaxRecordings : DeleteRecordingOp(id)

\* A started processRecording goroutine is scheduled, gets the lock and
\* wakes from its five-second sleep.
VodFairness ==
  \A id \in 1..MaxRecordings :
    /\ WF_vars(ProcessRecordingLookup(id))
    /\ WF_vars(ProcessRecordingFinish(id))

\* Playback at one instant of the clock: sessions on recordings of either
\* length, published or not.
NextVodPlay ==
  \/ NewVODServiceOp(DefaultVODConfig)
  \/ \E st \in VodStreamers : StartRecordingOp(st)
  \/ \E id \in 1..MaxRecordings, d \in StopDurations : StopRecordingOp(id, d)
  \/ \E id \in 1..MaxRecordings : ProcessRecordingLookup(id)
  \/ \E id \in 1..MaxRecordings : ProcessRecordingFinish(id)
  \/ \E id \in 1..MaxRecordings : PublishRecordingOp(id)
  \/ \E id \in 1..MaxRecordings : DeleteRecordingOp(id)
  \/ \E id \in 1..MaxRecordings, u \in VodViewers :
       StartPlaybackSessionOp(id, u)
  \/ \E sid \in 1..MaxSessions, pos \in Positions :
       UpdatePlaybackSessionOp(sid, pos)
  \/ \E sid \in 1..MaxSessions : EndPlaybackSessionOp(sid)

\* =========================================================================
\* Analytics aggregator (AnalyticsService)
\* =========================================================================
\* The StreamAnalytics StartStreamAnalytics builds.  The viewer calls of
\* the runs give no platform, device, country or region, so the
\* per-dimension maps stay empty and are left out; a derived rate is the
\* pair of the two numbers the code divides.
NewStreamAnalytics(streamer, t) ==
  [StreamerID         |-> streamer,
   StartTime          |-> t,
   EndTime            |-> None,
   Duration           |-> 0,
   TotalViewers       |-> 0,
   PeakViewers        |-> 0,
   CurrentViewers     |-> 0,
   UniqueViewers      |-> 0,
   TotalMessages      |-> 0,
   UniqueMessagers    |-> 0,
   TotalReactions     |-> 0,
   ReactionBreakdown  |-> <<>>,
   AverageWatchTime   |-> 0,
   ViewerRetention    |-> <<0, 1>>,
   MessagesPerMinute  |-> <<0, 1>>,
   ReactionsPerMinute |-> <<0, 1>>,
   ViewerTimeline     |-> <<>>,
   LastUpdated        |-> t]

\* The ViewerSession RecordViewerJoin builds.
NewViewerSession(viewer, t) ==
  [ViewerID      |-> viewer,
   JoinedAt      |-> t,
   LeftAt        |-> None,
   WatchDuration |-> 0,
   MessagesSent  |-> 0,
   ReactionsSent |-> 0]

\* The aggregator's state as one value.
AS ==
  [analytics |-> streamAnalytics,
   sessions  |-> viewerSessions,
   samplers  |-> asamplers]

RECURSIVE SumWatch(_, _)
SumWatch(sessions, viewers) ==
  IF viewers = {} THEN 0
  ELSE LET v == CHOOSE x \in viewers : TRUE
       IN  sessions[v].WatchDuration + SumWatch(sessions, viewers \ {v})

\* calculateMetrics on the record a of the room at time t.
calculateMetrics(s, a, room, t) ==
  IF room \notin DOMAIN s.sessions THEN a
  ELSE LET sessions  == s.sessions[room]
           completed == {v \in DOMAIN sessions : sessions[v].LeftAt.set}
           messagers == {v \in DOMAIN sessions : sessions[v].MessagesSent > 0}
           n         == Cardinality(completed)
           minutes   == a.EndTime.at - a.StartTime
           rated     == a.EndTime.set /\ minutes > 0
       IN  [a EXCEPT
              !.AverageWatchTime =
                 IF n > 0 THEN SumWatch(sessions, completed) \div n ELSE @,
              !.UniqueMessagers = Cardinality(messagers),
              !.MessagesPerMinute =
                 IF rated THEN <<a.TotalMessages, minutes>> ELSE @,
              !.ReactionsPerMinute =
                 IF rated THEN <<a.TotalReactions, minutes>> ELSE @,
              !.ViewerRetention =
                 IF a.TotalViewers > 0
                 THEN <<n * 100, a.TotalViewers>> ELSE @,
              !.LastUpdated = t]

\* StartStreamAnalytics; with EnableRealTime it starts the sampling loop.
StartStreamAnalytics(s, cfg, room, streamer, t) ==
  IF room \in DOMAIN s.analytics
  THEN [err |-> "analytics already started for this stream", as |-> s]
  ELSE [err |-> "ok",
        as  |-> [s EXCEPT
                   !.analytics = Put(@, room, NewStreamAnalytics(streamer, t)),
                   !.sessions  = Put(@, room, <<>>),
                   !.samplers  = IF cfg.EnableRealTime
                                 THEN @ \cup {room} ELSE @]]

StopStreamAnalytics(s, room, t) ==
  IF room \notin DOMAIN s.analytics
  THEN [err |-> "analytics not found for this stream", as |-> s]
  ELSE LET Close(session) ==
             IF session.LeftAt.set THEN session
             ELSE [session EXCEPT
                     !.LeftAt = Some(t),
                     !.WatchDuration = t - session.JoinedAt]
           closed ==
             IF room \in DOMAIN s.sessions
             THEN [s EXCEPT !.sessions[room] =
                     [v \in DOMAIN @ |-> Close(@[v])]]
             ELSE s
           a == [s.analytics[room] EXCEPT
                   !.EndTime  = Some(t),
                   !.Duration = t - s.analytics[room].StartTime]
       IN  [err |-> "ok",
            as  |-> [closed EXCEPT
                       !.analytics[room] =
                          calculateMetrics(closed, a, room, t)]]

\* Mutant: every join counts as unique.
RecordViewerJoin_AlwaysUnique(s, room, viewer, t) ==
  IF room \notin DOMAIN s.analytics
  THEN [err |-> "analytics not found", as |-> s]
  ELSE LET sessions == IF room \in DOMAIN s.sessions
                       THEN s.sessions[room] ELSE <<>>
       IN  [err |-> "ok",
            as  |-> [s EXCEPT
                       !.sessions = Put(@, room,
                          Put(sessions, viewer, NewViewerSession(viewer, t))),
                       !.analytics[room].CurrentViewers = @ + 1,
                       !.analytics[room].TotalViewers   = @ + 1,
                       !.analytics[room].UniqueViewers  = @ + 1,
                       !.analytics[room].PeakViewers =
                          IF s.analytics[room].CurrentViewers + 1 > @
                          THEN s.analytics[room].CurrentViewers + 1 ELSE @]]

\* Mutant: the peak is not raised.
RecordViewerJoin_NoPeak(s, room, viewer, t) ==
  IF room \notin DOMAIN s.analytics
  THEN [err |-> "analytics not found", as |-> s]
  ELSE LET sessions == IF room \in DOMAIN s.sessions
                       THEN s.sessions[room] ELSE <<>>
       IN  [err |-> "ok",
            as  |-> [s EXCEPT
                       !.sessions = Put(@, room,
                          Put(sessions, viewer, NewViewerSession(viewer, t))),
                       !.analytics[room].CurrentViewers = @ + 1,
                       !.analytics[room].TotalViewers   = @ + 1]]

\* RecordViewerJoin: the join is unique unless the session stored for the
\* viewer has left; the new session replaces the stored one.
RecordViewerJoin(s, room, viewer, t) ==
  IF room \notin DOMAIN s.analytics
  THEN [err |-> "analytics not found", as |-> s]
  ELSE LET sessions == IF room \in DOMAIN s.sessions
                       THEN s.sessions[room] ELSE <<>>
           isUnique == ~\E v \in DOMAIN sessions :
                          sessions[v].ViewerID = viewer /\ sessions[v].LeftAt.set
       IN  [err |-> "ok",
            as  |-> [s EXCEPT
                       !.sessions = Put(@, room,
                          Put(sessions, viewer, NewViewerSession(viewer, t))),
                       !.analytics[room].CurrentViewers = @ + 1,
                       !.analytics[room].TotalViewers   = @ + 1,
                       !.analytics[room].UniqueViewers  =
                          IF isUnique THEN @ + 1 ELSE @,
                       !.analytics[room].PeakViewers =
                          IF s.analytics[room].CurrentViewers + 1 > @
                          THEN s.analytics[room].CurrentViewers + 1 ELSE @]]

RecordViewerLeave(s, room, viewer, t) ==
  IF room \notin DOMAIN s.analytics
  THEN [err |-> "analytics not found", as |-> s]
  ELSE IF room \notin DOMAIN s.sessions
  THEN [err |-> "no sessions found", as |-> s]
  ELSE IF viewer \notin DOMAIN s.sessions[room]
  THEN [err |-> "session not found", as |-> s]
  ELSE [err |-> "ok",
        as  |-> [s EXCEPT
                   !.sessions[room][viewer].LeftAt = Some(t),
                   !.sessions[room][viewer].WatchDuration =
                      t - s.sessions[room][viewer].JoinedAt,
                   !.analytics[room].CurrentViewers =
                      IF @ - 1 < 0 THEN 0 ELSE @ - 1]]

RecordChatMessage(s, room, sender) ==
  IF room \notin DOMAIN s.analytics
  THEN [err |-> "analytics not found", as |-> s]
  ELSE [err |-> "ok",
        as  |-> [s EXCEPT
                   !.analytics[room].TotalMessages = @ + 1,
                   !.sessions =
                      IF room \in DOMAIN @ /\ sender \in DOMAIN @[room]
                      THEN [@ EXCEPT ![room][sender].MessagesSent = @ + 1]
                      ELSE @]]

RecordReaction(s, room, sender, kind) ==
  IF room \notin DOMAIN s.analytics
  THEN [err |-> "analytics not found", as |-> s]
  ELSE [err |-> "ok",
        as  |-> [s EXCEPT
                   !.analytics[room].TotalReactions = @ + 1,
                   !.analytics[room].ReactionBreakdown =
                      Put(@, kind, IF kind \in DOMAIN @ THEN @[kind] + 1 ELSE 1),
                   !.sessions =
                      IF room \in DOMAIN @ /\ sender \in DOMAIN @[room]
                      THEN [@ EXCEPT ![room][sender].ReactionsSent = @ + 1]
                      ELSE @]]

\* One round of updateAnalyticsLoop when its ticker fires: the loop ends
\* if the room has no record, else it appends a sample, drops the oldest
\* one beyond MaxTimelinePoints and recomputes the metrics.
updateAnalyticsLoop(s, cfg, room, t) ==
  IF room \notin DOMAIN s.analytics
  THEN [s EXCEPT !.samplers = @ \ {room}]
  ELSE LET a0    == s.analytics[room]
           line  == Append(a0.ViewerTimeline,
                           [Timestamp |-> t, Value |-> a0.CurrentViewers])
           a1    == [a0 EXCEPT !.ViewerTimeline =
                       IF Len(line) > cfg.MaxTimelinePoints
                       THEN Tail(line) ELSE line]
       IN  [s EXCEPT !.analytics[room] = calculateMetrics(s, a1, room, t)]

\* The rooms CleanupOldAnalytics drops at time t.
OldAnalytics(s, cfg, t) ==
  {r \in DOMAIN s.analytics :
     s.analytics[r].EndTime.set
       /\ s.analytics[r].EndTime.at < t - cfg.RetentionDays}

CleanupOldAnalytics(s, cfg, t) ==
  [s EXCEPT
     !.analytics = [r \in DOMAIN @ \ OldAnalytics(s, cfg, t) |-> @[r]],
     !.sessions  = [r \in DOMAIN @ \ OldAnalytics(s, cfg, t) |-> @[r]]]

\* --------------------------------------------------------------- actions
ALast(op, room, who, res) == [op |-> op, room |-> room, who |-> who, res |-> res]
NoAnalyticsStep == ALast("none", "", "", "ok")

AnalyticsInit ==
  /\ aconfig = NoConfig
  /\ streamAnalytics = <<>>
  /\ viewerSessions = <<>>
  /\ asamplers = {}
  /\ ascript = 0
  /\ aleft = {}
  /\ alast = NoAnalyticsStep

CommitAnalytics(s) ==
  /\ streamAnalytics' = s.analytics
  /\ viewerSessions' = s.sessions
  /\ asamplers' = s.samplers

\* The joins of all rooms so far (TotalViewers is an unbounded int).
Joins(s) ==
  LET RECURSIVE Sum(_)
      Sum(rooms) ==
        IF rooms = {} THEN 0
        ELSE LET r == CHOOSE x \in rooms : TRUE
             IN  s.analytics[r].TotalViewers + Sum(rooms \ {r})
  IN  Sum(DOMAIN s.analytics)

NewAnalyticsServiceOp(cfg) ==
  /\ ~aconfig.set
  /\ aconfig' = [set |-> TRUE, cfg |-> cfg]
  /\ alast' = ALast("new", "", "", "ok")
  /\ UNCHANGED <<now, streamAnalytics, viewerSessions, asamplers, ascript,
                 aleft, notAnalyticsVars>>

StartStreamAnalyticsOp(room, streamer) ==
  /\ aconfig.set
  /\ LET out == StartStreamAnalytics(AS, aconfig.cfg, room, streamer, now)
     IN  /\ CommitAnalytics(out.as)
         /\ alast' = ALast("start", room, streamer, out.err)
  /\ UNCHANGED <<now, aconfig, ascript, aleft, notAnalyticsVars>>

StopStreamAnalyticsOp(room) ==
  /\ aconfig.set
  /\ LET out == StopStreamAnalytics(AS, room, now)
     IN  /\ CommitAnalytics(out.as)
         /\ alast' = ALast("stop", room, "", out.err)
  /\ UNCHANGED <<now, aconfig, ascript, aleft, notAnalyticsVars>>

RecordViewerJoinOp(room, viewer) ==
  /\ aconfig.set
  /\ Joins(AS) < MaxJoins
  /\ LET out == RecordViewerJoin(AS, room, viewer, now)
     IN  /\ CommitAnalytics(out.as)
         /\ alast' = ALast("join", room, viewer, out.err)
  /\ UNCHANGED <<now, aconfig, ascript, aleft, notAnalyticsVars>>

\* RecordViewerJoin in the runs that count up to cap joins.
RecordViewerJoinWithin(room, viewer, cap) ==
  /\ aconfig.set
  /\ Joins(AS) < cap
  /\ LET out == RecordViewerJoin(AS, room, viewer, now)
     IN  /\ CommitAnalytics(out.as)
         /\ alast' = ALast("join", room, viewer, out.err)
  /\ UNCHANGED <<now, aconfig, ascript, aleft, notAnalyticsVars>>

RecordViewerLeaveOp(room, viewer) ==
  /\ aconfig.set
  /\ LET out == RecordViewerLeave(AS, room, viewer, now)
     IN  /\ CommitAnalytics(out.as)
         /\ alast' = ALast("leave", room, viewer, out.err)
         /\ aleft' = IF out.err = "ok" THEN aleft \cup {<<room, viewer>>}
                     ELSE aleft
  /\ UNCHANGED <<now, aconfig, ascript, notAnalyticsVars>>

RecordChatMessageOp(room, sender) ==
  /\ aconfig.set
  /\ room \in DOMAIN streamAnalytics =>
       streamAnalytics[room].TotalMessages < MaxCounted
  /\ LET out == RecordChatMessage(AS, room, sender)
     IN  /\ CommitAnalytics(out.as)
         /\ alast' = ALast("chat", room, sender, out.err)
  /\ UNCHANGED <<now, aconfig, ascript, aleft, notAnalyticsVars>>

RecordReactionOp(room, sender, kind) ==
  /\ aconfig.set
  /\ room \in DOMAIN streamAnalytics =>
       streamAnalytics[room].TotalReactions < MaxCounted
  /\ LET out == RecordReaction(AS, room, sender, kind)
     IN  /\ CommitAnalytics(out.as)
         /\ alast' = ALast("reaction", room, sender, out.err)
  /\ UNCHANGED <<now, aconfig, ascript, aleft, notAnalyticsVars>>

\* The ticker of a room's sampling loop fires.
SampleTick(room) ==
  /\ room \in asamplers
  /\ CommitAnalytics(updateAnalyticsLoop(AS, aconfig.cfg, room, now))
  /\ alast' = ALast("sample", room, "", "ok")
  /\ UNCHANGED <<now, aconfig, ascript, aleft, notAnalyticsVars>>

CleanupOldAnalyticsOp ==
  /\ aconfig.set
  /\ CommitAnalytics(CleanupOldAnalytics(AS, aconfig.cfg, now))
  /\ alast' = ALast("cleanup", "", "", "ok")
  /\ UNCHANGED <<now, aconfig, ascript, aleft, notAnalyticsVars>>

\* A client that issues, one call after the other, viewer_join(alice),
\* viewer_join(bob), viewer_join(alice), viewer_leave(alice),
\* viewer_join(alice) on the started room; ascript counts its calls.
ScriptRoom == "r3"
ScriptCalls ==
  << <<"join", "alice">>, <<"join", "bob">>, <<"join", "alice">>,
     <<"leave", "alice">>, <<"join", "alice">> >>

ScriptStep ==
  /\ aconfig.set
  /\ ScriptRoom \in DOMAIN streamAnalytics
  /\ ascript < Len(ScriptCalls)
  /\ ascript' = ascript + 1
  /\ LET call == ScriptCalls[ascript + 1]
         out  == IF call[1] = "join"
                 THEN RecordViewerJoin(AS, ScriptRoom, call[2], now)
                 ELSE RecordViewerLeave(AS, ScriptRoom, call[2], now)
     IN  /\ CommitAnalytics(out.as)
         /\ alast' = ALast(call[1], ScriptRoom, call[2], out.err)
         /\ aleft' = IF call[1] = "leave" /\ out.err = "ok"
                     THEN aleft \cup {<<ScriptRoom, call[2]>>} ELSE aleft
  /\ UNCHANGED <<now, aconfig, notAnalyticsVars>>

AnalyticsTick(last) ==
  /\ now < last
  /\ now' = now + 1
  /\ alast' = NoAnalyticsStep
  /\ UNCHANGED <<aconfig, streamAnalytics, viewerSessions, asamplers,
                 ascript, aleft, notAnalyticsVars>>

\* The aggregator's events on one room at one instant of the clock, with
\* the sampler.
NextAnalytics ==
  \/ NewAnalyticsServiceOp(AnalyticsConfig(TRUE, 1, 0))
  \/ \E r \in AnalyticsRooms : StartStreamAnalyticsOp(r, "ann")
  \/ \E r \in AnalyticsRooms : StopStreamAnalyticsOp(r)
  \/ \E r \in AnalyticsRooms, v \in Viewers : RecordViewerJoinOp(r, v)
  \/ \E r \in AnalyticsRooms, v \in Viewers : RecordViewerLeaveOp(r, v)
  \/ \E r \in AnalyticsRooms : RecordChatMessageOp(r, "alice")
  \/ \E r \in AnalyticsRooms : RecordReactionOp(r, "alice", "like")
  \/ \E r \in AnalyticsRooms : SampleTick(r)

\* Viewers who join, leave and come back.
NextAnalyticsUnique ==
  \/ NewAnalyticsServiceOp(AnalyticsConfig(TRUE, 1, 0))
  \/ \E r \in AnalyticsRooms : StartStreamAnalyticsOp(r, "ann")
  \/ \E r \in AnalyticsRooms, v \in Viewers :
       RecordViewerJoinWithin(r, v, MaxRejoins)
  \/ \E r \in AnalyticsRooms, v \in Viewers : RecordViewerLeaveOp(r, v)

\* The scripted client next to chat, reaction and sampling events.
NextAnalyticsScript ==
  \/ NewAnalyticsServiceOp(AnalyticsConfig(TRUE, 1, 0))
  \/ StartStreamAnalyticsOp(ScriptRoom, "ann")
  \/ ScriptStep
  \/ RecordChatMessageOp(ScriptRoom, "bob")
  \/ RecordReactionOp(ScriptRoom, "bob", "like")
  \/ SampleTick(ScriptRoom)
  \/ AnalyticsTick(AnalyticsMaxTime)

\* =========================================================================
\* Locking of the chat and reaction engines
\* =========================================================================
\* Each method is the sequence of its lock operations and of its accesses
\* to the listener registry; goroutines run such sequences side by side.

ChatMu == "cs.mu"
ChatRoomMu == "chat.room.mu"
ReactMu == "rs.mu"
ReactRoomMu == "reaction.room.mu"
AnalyticsMu == "as.mu"
EngineLocks == {ChatMu, ReactMu}
RoomLocks == {ChatRoomMu, ReactRoomMu}
\* The lock that guards each listener registry.
GuardOf(registry) ==
  IF registry = "cs.messageHandlers" THEN ChatMu
  ELSE IF registry = "rs.reactionHandlers" THEN ReactMu
  ELSE AnalyticsMu

Goroutines == 1..NumGoroutines

\* CreateChatRoom: the engine write lock for the whole call.
CreateChatRoomLocking == << <<"Lock", ChatMu>>, <<"Unlock", ChatMu>> >>

\* RegisterMessageHandler: the append under the engine write lock.
RegisterMessageHandlerLocking ==
  << <<"Lock", ChatMu>>, <<"Write", "cs.messageHandlers">>,
     <<"Unlock", ChatMu>> >>

\* The lookup of the room every room method of the chat starts with; a
\* call for a missing room ends here.
ChatLookupLocking == << <<"RLock", ChatMu>>, <<"RUnlock", ChatMu>> >>

\* JoinChatRoom, LeaveChatRoom, SendMessage, DeleteMessage, MuteParticipant
\* and BanParticipant: the lookup, then the room write lock until the
\* return; a join, a leave and a send that succeed call notifyHandlers,
\* which ranges over messageHandlers, before the return.
ChatRoomWriteLocking(notifies) ==
  ChatLookupLocking \o << <<"Lock", ChatRoomMu>> >>
    \o (IF notifies THEN << <<"Read", "cs.messageHandlers">> >> ELSE <<>>)
    \o << <<"Unlock", ChatRoomMu>> >>

\* GetMessages: the lookup, then the room read lock.
GetMessagesLocking ==
  ChatLookupLocking \o << <<"RLock", ChatRoomMu>>, <<"RUnlock", ChatRoomMu>> >>

\* The goroutine MuteParticipant starts: after its sleep, the room write
\* lock.
UnmuteTaskLocking == << <<"Lock", ChatRoomMu>>, <<"Unlock", ChatRoomMu>> >>

\* CreateReactionRoom and DeleteReactionRoom: the engine write lock.
CreateReactionRoomLocking == << <<"Lock", ReactMu>>, <<"Unlock", ReactMu>> >>

\* RegisterReactionHandler: the append under the engine write lock.
RegisterReactionHandlerLocking ==
  << <<"Lock", ReactMu>>, <<"Write", "rs.reactionHandlers">>,
     <<"Unlock", ReactMu>> >>

\* SendReaction: the lookup under the engine read lock, the lazy creation
\* under the engine write lock when the room is missing, checkRateLimit
\* with the room read lock, and when the check passes the room write lock
\* until the return, with notifyHandlers ranging over reactionHandlers.
SendReactionLocking(creates, passes) ==
  << <<"RLock", ReactMu>>, <<"RUnlock", ReactMu>> >>
    \o (IF creates THEN << <<"Lock", ReactMu>>, <<"Unlock", ReactMu>> >>
        ELSE <<>>)
    \o << <<"RLock", ReactRoomMu>>, <<"RUnlock", ReactRoomMu>> >>
    \o (IF passes
        THEN << <<"Lock", ReactRoomMu>>, <<"Read", "rs.reactionHandlers">>,
                <<"Unlock", ReactRoomMu>> >>
        ELSE <<>>)

\* GetReactionStats, GetRecentReactions, GetUserReactions, GetTopReactors:
\* the lookup under the engine read lock, then the room read lock.
GetReactionStatsLocking ==
  << <<"RLock", ReactMu>>, <<"RUnlock", ReactMu>>,
     <<"RLock", ReactRoomMu>>, <<"RUnlock", ReactRoomMu>> >>

\* Mutant: the sweep takes the lock of the room before the engine lock.
CleanupOldReactionsLocking_RoomFirst(hasRoom) ==
  << <<"Lock", ReactRoomMu>>, <<"Lock", ReactMu>>,
     <<"Unlock", ReactMu>>, <<"Unlock", ReactRoomMu>> >>

\* CleanupOldReactions: the engine write lock for the whole call and,
\* inside it, the write lock of each room in turn.
CleanupOldReactionsLocking(hasRoom) ==
  << <<"Lock", ReactMu>> >>
    \o (IF hasRoom
        THEN << <<"Lock", ReactRoomMu>>, <<"Unlock", ReactRoomMu>> >>
        ELSE <<>>)
    \o << <<"Unlock", ReactMu>> >>

\* The analytics engine has one lock, as.mu, for its two maps and for what
\* they point to: the map of records, the sessions, and a room's record.
AnalyticsState ==
  {"as.streamAnalytics", "as.viewerSessions", "StreamAnalytics"}

\* StartStreamAnalytics, StopStreamAnalytics, RecordViewerJoin,
\* RecordViewerLeave, RecordChatMessage, RecordReaction,
\* RecordBitrateUpdate, CleanupOldAnalytics and a tick of
\* updateAnalyticsLoop: the write lock around the whole body, which reads
\* and writes records and sessions.
AnalyticsWriteLocking ==
  << <<"Lock", AnalyticsMu>>, <<"Write", "as.streamAnalytics">>,
     <<"Write", "as.viewerSessions">>, <<"Write", "StreamAnalytics">>,
     <<"Unlock", AnalyticsMu>> >>

\* calculateMetrics: it returns when the room has no session map, else it
\* ranges over the sessions, reads the totals of the record and assigns
\* its UniqueMessagers, its rates and its LastUpdated.
calculateMetricsAccesses(hasSessions) ==
  << <<"Read", "as.viewerSessions">> >>
    \o (IF hasSessions
        THEN << <<"Read", "StreamAnalytics">>, <<"Write", "StreamAnalytics">> >>
        ELSE <<>>)

\* GetStreamAnalytics: the read lock for the whole call; the lookup of the
\* record and, when it exists, calculateMetrics on it.
GetStreamAnalyticsLocking(exists, hasSessions) ==
  << <<"RLock", AnalyticsMu>>, <<"Read", "as.streamAnalytics">> >>
    \o (IF exists THEN calculateMetricsAccesses(hasSessions) ELSE <<>>)
    \o << <<"RUnlock", AnalyticsMu>> >>

\* GetViewerSessions: the read lock, and the range over the sessions.
GetViewerSessionsLocking ==
  << <<"RLock", AnalyticsMu>>, <<"Read", "as.viewerSessions">>,
     <<"RUnlock", AnalyticsMu>> >>

AnalyticsCalls ==
  {AnalyticsWriteLocking, GetViewerSessionsLocking}
    \cup {GetStreamAnalyticsLocking(e, h) : e, h \in BOOLEAN}

\* What a goroutine may run.
ChatCalls ==
  {CreateChatRoomLocking, RegisterMessageHandlerLocking, ChatLookupLocking,
   GetMessagesLocking, UnmuteTaskLocking}
    \cup {ChatRoomWriteLocking(n) : n \in BOOLEAN}
ReactionCalls ==
  {CreateReactionRoomLocking, RegisterReactionHandlerLocking,
   GetReactionStatsLocking}
    \cup {SendReactionLocking(c, p) : c, p \in BOOLEAN}
    \cup {CleanupOldReactionsLocking(h) : h \in BOOLEAN}

\* The locks a goroutine holds, and the goroutines that hold a lock.
HeldBy(g) == {lheld[g][i][2] : i \in 1..Len(lheld[g])}
Writers(m) == {g \in Goroutines : <<"w", m>> \in {lheld[g][i] : i \in 1..Len(lheld[g])}}
Readers(m) == {g \in Goroutines : <<"r", m>> \in {lheld[g][i] : i \in 1..Len(lheld[g])}}
\* The goroutines that wait in Lock() of m: they keep new readers out.
WaitingWriters(m) ==
  {g \in Goroutines : lwait[g] /\ lpc[g] # <<>> /\ Head(lpc[g]) = <<"Lock", m>>}

\* The next operation of g returns at once or blocks (sync.RWMutex).
CanStep(g) ==
  /\ lpc[g] # <<>>
  /\ LET ins == Head(lpc[g]) IN
     CASE ins[1] = "Lock" ->
            ~lwait[g] \/ (Writers(ins[2]) = {} /\ Readers(ins[2]) = {})
       [] ins[1] = "RLock" ->
            Writers(ins[2]) = {} /\ WaitingWriters(ins[2]) = {}
       [] OTHER -> TRUE

LockInit ==
  /\ lpc = [g \in Goroutines |-> <<>>]
  /\ lheld = [g \in Goroutines |-> <<>>]
  /\ lwait = [g \in Goroutines |-> FALSE]

\* A goroutine enters a method.
BeginCall(g, calls) ==
  /\ lpc[g] = <<>>
  /\ \E c \in calls : lpc' = [lpc EXCEPT ![g] = c]
  /\ UNCHANGED <<now, lheld, lwait, notLockVars>>

\* Lock(): the goroutine announces itself, then gets the lock once nobody
\* holds it.
LockRequest(g) ==
  /\ lpc[g] # <<>> /\ Head(lpc[g])[1] = "Lock" /\ ~lwait[g]
  /\ lwait' = [lwait EXCEPT ![g] = TRUE]
  /\ UNCHANGED <<now, lpc, lheld, notLockVars>>

LockAcquire(g) ==
  /\ lpc[g] # <<>> /\ Head(lpc[g])[1] = "Lock" /\ lwait[g]
  /\ CanStep(g)
  /\ lheld' = [lheld EXCEPT ![g] = Append(@, <<"w", Head(lpc[g])[2]>>)]
  /\ lwait' = [lwait EXCEPT ![g] = FALSE]
  /\ lpc' = [lpc EXCEPT ![g] = Tail(@)]
  /\ UNCHANGED <<now, notLockVars>>

RLockAcquire(g) ==
  /\ lpc[g] # <<>> /\ Head(lpc[g])[1] = "RLock"
  /\ CanStep(g)
  /\ lheld' = [lheld EXCEPT ![g] = Append(@, <<"r", Head(lpc[g])[2]>>)]
  /\ lpc' = [lpc EXCEPT ![g] = Tail(@)]
  /\ UNCHANGED <<now, lwait, notLockVars>>

\* Unlock() and RUnlock().
LockRelease(g) ==
  /\ lpc[g] # <<>> /\ Head(lpc[g])[1] \in {"Unlock", "RUnlock"}
  /\ lheld' = [lheld EXCEPT ![g] =
       SelectSeq(@, LAMBDA h : h[2] # Head(lpc[g])[2])]
  /\ lpc' = [lpc EXCEPT ![g] = Tail(@)]
  /\ UNCHANGED <<now, lwait, notLockVars>>

\* The range over a listener registry, or the append to it.
RegistryAccess(g) ==
  /\ lpc[g] # <<>> /\ Head(lpc[g])[1] \in {"Read", "Write"}
  /\ lpc' = [lpc EXCEPT ![g] = Tail(@)]
  /\ UNCHANGED <<now, lheld, lwait, notLockVars>>

\* The goroutines of both engines.
NextLocks ==
  \/ \E g \in Goroutines : BeginCall(g, ChatCalls)
  \/ \E g \in Goroutines : BeginCall(g, ReactionCalls)
  \/ \E g \in Goroutines : LockRequest(g)
  \/ \E g \in Goroutines : LockAcquire(g)
  \/ \E g \in Goroutines : RLockAcquire(g)
  \/ \E g \in Goroutines : LockRelease(g)
  \/ \E g \in Goroutines : RegistryAccess(g)

\* The goroutines that call the analytics engine.
NextAnalyticsLocks ==
  \/ \E g \in Goroutines : BeginCall(g, AnalyticsCalls)
  \/ \E g \in Goroutines : LockRequest(g)
  \/ \E g \in Goroutines : LockAcquire(g)
  \/ \E g \in Goroutines : RLockAcquire(g)
  \/ \E g \in Goroutines : LockRelease(g)
  \/ \E g \in Goroutines : RegistryAccess(g)

\* =========================================================================
\* Specifications
\* =========================================================================

Init ==
  /\ now = 0 /\ KeysInit /\ ChatInit /\ ReactInit /\ VodInit /\ AnalyticsInit
  /\ LockInit

SpecKeys == Init /\ [][NextKeys]_vars

SpecKeysSweep == Init /\ [][NextKeysSweep]_vars

SpecChat == Init /\ [][NextChat]_vars

SpecChatMod == Init /\ [][NextChatMod]_vars

SpecChatBan == Init /\ [][NextChatBan]_vars

SpecChatRate == Init /\ [][NextChatRate]_vars

SpecChatFanout == Init /\ [][NextChatFanout]_vars

SpecChatCreate == Init /\ [][NextChatCreate]_vars

SpecHttp == Init /\ [][NextHttp]_vars

SpecLocks == Init /\ [][NextLocks]_vars

SpecAnalyticsLocks == Init /\ [][NextAnalyticsLocks]_vars

SpecChatMute == Init /\ [][NextChatMute]_vars /\ ChatMuteFairness

SpecChatEvade == Init /\ [][NextChatEvade]_vars

SpecReact == Init /\ [][NextReact]_vars

SpecReactBurst == Init /\ [][NextReactBurst]_vars

SpecReactStats == Init /\ [][NextReactStats]_vars

SpecReactRace == Init /\ [][NextReactRace]_vars

SpecReactLazy == Init /\ [][NextReactLazy]_vars

SpecReactWindow == Init /\ [][NextReactWindow]_vars

\* Listing: recordings started at different instants, deleted, and the
\* pages of every limit and offset.
PageLimits == {1, 2}
PageOffsets == {0, 1}
NextVodList ==
  \/ NewVODServiceOp(DefaultVODConfig)
  \/ \E st \in VodStreamers : StartRecordingWithin(st, MaxListed)
  \/ \E id \in 1..MaxListed : DeleteRecordingOp(id)
  \/ \E st \in VodStreamers, l \in PageLimits, o \in PageOffsets :
       ListRecordingsByStreamerOp(st, l, o)
  \/ VodTick(VodMaxTime)

SpecVodList == Init /\ [][NextVodList]_vars

SpecVod == Init /\ [][NextVod]_vars

SpecVodPlay == Init /\ [][NextVodPlay]_vars

SpecVodStop == Init /\ [][NextVodStop]_vars

SpecAnalytics == Init /\ [][NextAnalytics]_vars

SpecAnalyticsUnique == Init /\ [][NextAnalyticsUnique]_vars

SpecAnalyticsScript == Init /\ [][NextAnalyticsScript]_vars

SpecVodHandlers == Init /\ [][NextVodHandlers]_vars

SpecVodLive == Init /\ [][NextVodLive]_vars /\ VodFairness

\* =========================================================================
\* Properties
\* =========================================================================

\* ---- C1 ----------------------------------------------------------------
\* What the contract gives for ValidateStreamKey(k) on the table ks at t.
C1_Expected(ks, k, t) ==
  CASE k \notin DOMAIN ks -> "not_found"
    [] k \in DOMAIN ks /\ ~ks[k].IsActive -> "inactive"
    [] k \in DOMAIN ks /\ ks[k].IsActive /\ ks[k].ExpiresAt.set
         /\ t > ks[k].ExpiresAt.at -> "expired"
    [] OTHER -> "ok"

\* C1: ValidateStreamKey(k) succeeds exactly when k is stored, active and
\* either has no expiry or the time is not after its expiry; otherwise it
\* fails not_found, inactive (checked before expiry) or expired; and in
\* every case the key table and the streamer index are left as they were.
C1_ValidateExact ==
  [][klast'.op = "validate" =>
       /\ keys' = keys
       /\ streamerKeys' = streamerKeys
       /\ klast'.res = C1_Expected(keys, klast'.key, now)
       /\ (klast'.res = "ok") <=>
            /\ klast'.key \in DOMAIN keys
            /\ keys[klast'.key].IsActive
            /\ (~keys[klast'.key].ExpiresAt.set
                \/ ~(now > keys[klast'.key].ExpiresAt.at))]_vars

\* A validation that succeeds at the very instant the key expires.
C1_Witness ==
  /\ klast.op = "validate"
  /\ klast.res = "ok"
  /\ klast.key \in DOMAIN keys
  /\ keys[klast.key].ExpiresAt = Some(now)
  /\ now > 0

\* ---- C2 ----------------------------------------------------------------
\* C2: once RevokeStreamKey(k) has succeeded, no ValidateStreamKey(k)
\* succeeds in any later state, whatever generate, mark_used, metadata,
\* sweep and delete calls follow.
C2_RevokeAbsorbing ==
  \A k \in revoked :
    /\ ValidateStreamKey(keys, k, now) # "ok"
    /\ (klast.op = "validate" /\ klast.key = k) => klast.res # "ok"

\* A revoked key that was then marked as used, and whose validation failed.
C2_Witness ==
  /\ klast.op = "validate"
  /\ klast.key \in revoked
  /\ klast.key \in DOMAIN keys
  /\ keys[klast.key].UsageCount > 0
  /\ klast.res = "inactive"

\* ---- C3 ----------------------------------------------------------------
\* The step is a JoinChatRoom of participant p; its room before and after.
JoinStep(p) == clast'.op = "join" /\ clast'.who = p
RoomBefore == chatRooms[clast'.room]
RoomAfter == chatRooms'[clast'.room]

\* C3 as claimed: after a ban of target that expires at t+d, every join of
\* target before t+d fails and leaves participants, moderators and
\* messages unchanged, and a join at or after t+d succeeds and clears the
\* ban; stated for every ban so far (banMax is the latest of their
\* expiries).
C3_EveryBanWindow ==
  [][\A p \in ChatUsers : (JoinStep(p) /\ banMax[p].set) =>
       /\ now < banMax[p].at =>
            /\ clast'.res = "banned"
            /\ RoomAfter.Participants = RoomBefore.Participants
            /\ RoomAfter.Moderators = RoomBefore.Moderators
            /\ RoomAfter.Messages = RoomBefore.Messages
       /\ now >= banMax[p].at =>
            /\ clast'.res = "ok"
            /\ p \notin DOMAIN RoomAfter.BannedUsers]_vars

\* C3 (amended): the window is that of the most recent successful ban of
\* target: a join of target fails exactly when it is issued before that
\* ban's expiry, and then leaves the room unchanged; a join at or after the
\* expiry succeeds and leaves no ban entry for target.
C3_LastBanWindow ==
  [][\A p \in ChatUsers : JoinStep(p) =>
       /\ (clast'.res = "banned") <=> (banLast[p].set /\ now < banLast[p].at)
       /\ clast'.res = "banned" => RoomAfter = RoomBefore
       /\ clast'.res # "banned" =>
            /\ clast'.res = "ok"
            /\ p \notin DOMAIN RoomAfter.BannedUsers
            /\ p \in DOMAIN RoomAfter.Participants]_vars

\* The first join at the instant a ban of one tick or more expires.
C3_Witness ==
  /\ clast.op = "join"
  /\ clast.res = "ok"
  /\ banLast[clast.who] = Some(now)
  /\ now > 0
  /\ clast.who \notin DOMAIN chatRooms[clast.room].BannedUsers

\* ---- C4 ----------------------------------------------------------------
\* C4: DeleteMessage, MuteParticipant and BanParticipant called with a
\* moderator that is not in room.Moderators fail not_moderator, and a
\* moderation call that fails for any reason leaves the rooms (messages,
\* participants, moderators, banned map) and the unmute timers unchanged.
C4_FailedModerationAtomic ==
  [][clast'.op \in {"delete", "mute", "ban"} =>
       /\ clast'.by \notin RoomBefore.Moderators =>
            clast'.res = "not_moderator"
       /\ clast'.res # "ok" =>
            /\ chatRooms' = chatRooms
            /\ unmuteTimers' = unmuteTimers]_vars

\* A ban asked by a non-moderator that left its target in the room.
C4_Witness ==
  /\ clast.op = "ban"
  /\ clast.res = "not_moderator"
  /\ clast.who \in DOMAIN chatRooms[clast.room].Participants
  /\ clast.who \notin DOMAIN chatRooms[clast.room].BannedUsers
  /\ chatRooms[clast.room].Moderators # {}

\* ---- C5 ----------------------------------------------------------------
\* The step is a SendMessage by a sender that is not muted, with a content
\* the room accepts.
PlainSendStep ==
  /\ clast'.op = "send"
  /\ clast'.n <= RoomBefore.Settings.MaxMessageLength
  /\ clast'.who \in DOMAIN RoomBefore.Participants =>
       ~RoomBefore.Participants[clast'.who].IsMuted

\* The sender's messages of the trailing minute in a log.
SentInMinute(msgs, sender, t) ==
  Cardinality({i \in 1..Len(msgs) :
     msgs[i].SenderID = sender /\ msgs[i].Timestamp >= t - Minute})

\* The step appended one message of the sender, stamped now.
AppendedOwn ==
  /\ Len(RoomAfter.Messages) = Len(RoomBefore.Messages) + 1
  /\ SubSeq(RoomAfter.Messages, 1, Len(RoomBefore.Messages))
       = RoomBefore.Messages
  /\ RoomAfter.Messages[Len(RoomAfter.Messages)].SenderID = clast'.who
  /\ RoomAfter.Messages[Len(RoomAfter.Messages)].Timestamp = now

\* C5: with slow mode off, a send by a sender who has max_per_minute
\* messages in the trailing minute fails rate_limited and appends nothing;
\* a send by a sender with fewer (in particular once the minute has
\* elapsed) succeeds and appends the message.
C5_RateLimitRoundTrip ==
  [][(PlainSendStep /\ RoomBefore.Settings.SlowModeDelay = 0) =>
       IF SentInMinute(RoomBefore.Messages, clast'.who, now)
            >= RoomBefore.Settings.MaxMessagesPerMin
       THEN /\ clast'.res = "rate_limited"
            /\ RoomAfter.Messages = RoomBefore.Messages
       ELSE /\ clast'.res = "ok"
            /\ AppendedOwn]_vars

\* The round trip: the sender's earlier message is more than a minute old
\* and, in a room that allows one message per minute, the send succeeded.
C5_Witness ==
  /\ clast.op = "send"
  /\ clast.res = "ok"
  /\ LET room == chatRooms[clast.room] IN
     /\ room.Settings.SlowModeDelay = 0
     /\ room.Settings.MaxMessagesPerMin = 1
     /\ \E i \in 1..(Len(room.Messages) - 1) :
          /\ room.Messages[i].SenderID = clast.who
          /\ room.Messages[i].Timestamp < now - Minute

\* ---- C6 ----------------------------------------------------------------
\* The sender has a message in the log and the last one is younger than
\* the room's slow-mode delay.
LastIsYoung(room, sender, t) ==
  \E i \in 1..Len(room.Messages) :
    /\ room.Messages[i].SenderID = sender
    /\ \A j \in (i + 1)..Len(room.Messages) :
         room.Messages[j].SenderID # sender
    /\ t - room.Messages[i].Timestamp < room.Settings.SlowModeDelay

\* C6 as claimed: with slow_mode_delay d > 0, a send by a sender whose
\* previous message is younger than d fails slow_mode and appends nothing,
\* and a send issued once d has elapsed succeeds.
C6_SlowModeAlone ==
  [][(PlainSendStep /\ RoomBefore.Settings.SlowModeDelay > 0) =>
       IF LastIsYoung(RoomBefore, clast'.who, now)
       THEN /\ clast'.res = "slow_mode"
            /\ RoomAfter.Messages = RoomBefore.Messages
       ELSE /\ clast'.res = "ok"
            /\ AppendedOwn]_vars

\* C6 (amended): the rate limit is checked first.  With slow_mode_delay
\* d > 0, a send by a sender whose previous message is younger than d
\* fails and appends nothing: rate_limited when the sender has
\* max_per_minute messages in the trailing minute, slow_mode otherwise; a
\* send issued once d has elapsed succeeds when the sender is below the
\* rate limit (and fails rate_limited, appending nothing, when not).
C6_SlowModeAfterRateLimit ==
  [][(PlainSendStep /\ RoomBefore.Settings.SlowModeDelay > 0) =>
       IF SentInMinute(RoomBefore.Messages, clast'.who, now)
            >= RoomBefore.Settings.MaxMessagesPerMin
       THEN /\ clast'.res = "rate_limited"
            /\ RoomAfter.Messages = RoomBefore.Messages
       ELSE IF LastIsYoung(RoomBefore, clast'.who, now)
       THEN /\ clast'.res = "slow_mode"
            /\ RoomAfter.Messages = RoomBefore.Messages
       ELSE /\ clast'.res = "ok"
            /\ AppendedOwn]_vars

\* The third send of the scenario: the sender's previous message is exactly
\* one delay old and the send succeeded.
C6_Witness ==
  /\ clast.op = "send"
  /\ clast.res = "ok"
  /\ LET room == chatRooms[clast.room] IN
     /\ room.Settings.SlowModeDelay > 0
     /\ \E i \in 1..(Len(room.Messages) - 1) :
          /\ room.Messages[i].SenderID = clast.who
          /\ now - room.Messages[i].Timestamp = room.Settings.SlowModeDelay

\* ---- C7 ----------------------------------------------------------------
\* Message m with its deletion marks set.
MarkedDeleted(m) == [m EXCEPT !.IsDeleted = TRUE, !.IsModerated = TRUE]

\* C7 as claimed: the log of a room is append-only: no step shortens it or
\* changes the ID or the position of a message in it, and a DeleteMessage
\* by a moderator changes nothing but is_deleted of the matching entry.
C7_DeleteFlipsOnlyIsDeleted ==
  [][\A r \in DOMAIN chatRooms :
       LET old == chatRooms[r].Messages
           new == chatRooms'[r].Messages
       IN  /\ r \in DOMAIN chatRooms'
           /\ Len(new) >= Len(old)
           /\ \A i \in 1..Len(old) : new[i].ID = old[i].ID
           /\ (clast'.op = "delete" /\ clast'.res = "ok") =>
                \E i \in 1..Len(old) :
                  new = [old EXCEPT ![i].IsDeleted = TRUE]]_vars

\* C7 (amended): the log of a room is append-only: no step shortens it or
\* changes the ID, the position, the sender, the content or the timestamp
\* of a message in it; a DeleteMessage that succeeds keeps the length and
\* sets both is_deleted and is_moderated of the one matching entry, and no
\* other step changes a message already in the log.
C7_AppendOnlyLog ==
  [][\A r \in DOMAIN chatRooms :
       LET old == chatRooms[r].Messages
           new == chatRooms'[r].Messages
       IN  /\ r \in DOMAIN chatRooms'
           /\ Len(new) >= Len(old)
           /\ \A i \in 1..Len(old) :
                \/ new[i] = old[i]
                \/ /\ clast'.op = "delete" /\ clast'.res = "ok"
                   /\ new[i] = MarkedDeleted(old[i])
           /\ (clast'.op = "delete" /\ clast'.res = "ok") =>
                /\ Len(new) = Len(old)
                /\ \E i \in 1..Len(old) :
                     new = [old EXCEPT ![i] = MarkedDeleted(old[i])]]_vars

\* A deleted message that is still the first of a log of two.
C7_Witness ==
  /\ clast.op = "delete"
  /\ clast.res = "ok"
  /\ LET room == chatRooms[clast.room] IN
     /\ Len(room.Messages) = 2
     /\ room.Messages[1].IsDeleted
     /\ ~room.Messages[2].IsDeleted

\* ---- C8 ----------------------------------------------------------------
\* C8: in every room, timestamps never decrease along the log, system
\* join/leave notices included.
C8_TimestampsMonotone ==
  \A r \in DOMAIN chatRooms :
    \A i, j \in 1..Len(chatRooms[r].Messages) :
      i < j => chatRooms[r].Messages[i].Timestamp
                 <= chatRooms[r].Messages[j].Timestamp

\* A user's message followed, later, by a join/leave notice.
C8_Witness ==
  \E r \in DOMAIN chatRooms :
    /\ Len(chatRooms[r].Messages) = 2
    /\ chatRooms[r].Messages[1].SenderID \in ChatUsers
    /\ chatRooms[r].Messages[2].SenderID = "system"
    /\ chatRooms[r].Messages[1].Timestamp < chatRooms[r].Messages[2].Timestamp

\* ---- C9 ----------------------------------------------------------------
\* C9: every registered handler is called with the messages of a room in
\* the order of the log: the positions it has seen only grow.
C9_ListenersInAppendOrder ==
  \A h \in 1..MaxHandlers :
    \A i, j \in 1..Len(observed[h]) :
      i < j => observed[h][i] < observed[h][j]

\* ---- C10 ---------------------------------------------------------------
\* The reactions of each sender in the log are at least the gap apart.
Separated(room, gap) ==
  \A i, j \in 1..Len(room.Reactions) :
    (i < j /\ room.Reactions[i].UserID = room.Reactions[j].UserID) =>
      room.Reactions[j].Timestamp - room.Reactions[i].Timestamp >= gap

\* At time t the sender's last accepted reaction in the room is younger
\* than the gap: by its timestamp in the log or by the sender's RateLimit.
TooSoon(room, user, gap, t) ==
  \/ \E i \in 1..Len(room.Reactions) :
       /\ room.Reactions[i].UserID = user
       /\ t - room.Reactions[i].Timestamp < gap
  \/ /\ user \in DOMAIN room.RateLimits
     /\ t - room.RateLimits[user].LastReaction < gap

\* C10: with rate limiting enabled and SendReaction calls that do not
\* overlap, any two reactions of one sender accepted into one room are at
\* least 1s/max_per_second apart, and a call whose check comes sooner than
\* that after the sender's last accepted reaction fails with the
\* per-second rate_limited error, ends, and changes no room.
C10_PerSecondSeparation ==
  [][(rconfig.set /\ rconfig.cfg.EnableRateLimit) =>
       /\ \A i \in DOMAIN rheap' : Separated(rheap'[i], MinGap(rconfig.cfg))
       /\ rlast'.op = "check" =>
            LET c == rcalls[rlast'.th] IN
            TooSoon(rheap[c.obj], c.user, MinGap(rconfig.cfg), now) =>
              /\ rlast'.res = "per_second"
              /\ rheap' = rheap
              /\ rrooms' = rrooms
              /\ rcalls'[rlast'.th] = Idle]_vars

\* One sender has two reactions in the log exactly 1s/max_per_second
\* apart and the sender's next call, issued at once, has just been refused.
C10_Witness ==
  /\ rlast.op = "check"
  /\ rlast.res = "per_second"
  /\ MinGap(rconfig.cfg) >= 1
  /\ \E o \in DOMAIN rheap :
       /\ Len(rheap[o].Reactions) = 2
       /\ rheap[o].Reactions[1].UserID = rheap[o].Reactions[2].UserID
       /\ rheap[o].Reactions[2].Timestamp - rheap[o].Reactions[1].Timestamp
            = MinGap(rconfig.cfg)
       /\ rheap[o].Reactions[2].Timestamp = now

FirstReactionOf(r, user) ==
  \/ r \notin DOMAIN rrooms
  \/ user \notin DOMAIN rheap[rrooms[r]].RateLimits

LimitOf(heap, o, u) ==
  IF u \in DOMAIN heap[o].RateLimits THEN heap[o].RateLimits[u]
  ELSE [LastReaction |-> 0, Count |-> 0, WindowStart |-> 0]

\* C12: for SendReaction calls that do not overlap, the number of
\* reactions accepted from one sender in one room in one window never
\* exceeds max_per_minute: the count of the window is at most
\* max_per_minute in every state, each accepted reaction adds one to it or
\* opens a new window with the count 1, and a new window is opened only
\* when the start of the old one is at least a minute old; nothing else
\* changes a sender's window.
C12_PerMinuteWindow ==
  [][rconfig.set =>
       \A o \in DOMAIN rheap : \A u \in ReactUsers :
         LET old == LimitOf(rheap, o, u)
             new == LimitOf(rheap', o, u)
             accepted == /\ rlast'.op = "send"
                         /\ rcalls[rlast'.th].obj = o
                         /\ rcalls[rlast'.th].user = u
         IN  /\ new.Count <= rconfig.cfg.MaxReactionsPerMinute
             /\ ~accepted => new = old
             /\ accepted =>
                  \/ /\ new.WindowStart = old.WindowStart
                     /\ new.Count = old.Count + 1
                     /\ u \in DOMAIN rheap[o].RateLimits
                     /\ now' - old.WindowStart < ReactMinute
                  \/ /\ new.WindowStart = now'
                     /\ new.Count = 1
                     /\ \/ u \notin DOMAIN rheap[o].RateLimits
                        \/ now' - old.WindowStart >= ReactMinute]_vars

\* With max_per_minute = 1, the sender's second reaction was accepted a
\* minute after the first and opened a new window.
C12_Witness ==
  /\ rlast.op = "send"
  /\ rconfig.cfg.MaxReactionsPerMinute = 1
  /\ \E o \in DOMAIN rheap : \E u \in ReactUsers :
       /\ Len(rheap[o].Reactions) = 2
       /\ rheap[o].Reactions[1].UserID = u
       /\ rheap[o].Reactions[2].UserID = u
       /\ rheap[o].RateLimits[u].Count = 1
       /\ rheap[o].RateLimits[u].WindowStart >= ReactMinute

\* ---- C13 ---------------------------------------------------------------
RECURSIVE SumCounts(_, _)
SumCounts(counts, kinds) ==
  IF kinds = {} THEN 0
  ELSE LET k == CHOOSE x \in kinds : TRUE
       IN  counts[k] + SumCounts(counts, kinds \ {k})

\* C13: the stats of a reaction room are a running total.  As long as no
\* sweep has removed a reaction from the room, stats.total equals the
\* length of the room's log and the sum of stats.by_type; a sweep keeps, in
\* the log and in every sender's list, exactly the reactions younger than
\* the TTL, and leaves stats.total and stats.by_type as they were.
C13_StatsRunningTotal ==
  [][/\ \A o \in DOMAIN rheap' :
          o \notin rswept' =>
            /\ rheap'[o].Stats.TotalReactions = Len(rheap'[o].Reactions)
            /\ rheap'[o].Stats.TotalReactions =
                 SumCounts(rheap'[o].Stats.ReactionCounts, ReactionTypes)
     /\ rlast'.op = "cleanup" =>
          \A o \in DOMAIN rheap :
            LET old    == rheap[o]
                new    == rheap'[o]
                cutoff == now - rconfig.cfg.ReactionTTL
                mapped == \E r \in DOMAIN rrooms : rrooms[r] = o
                Young(rs) == SelectSeq(rs, LAMBDA x : x.Timestamp > cutoff)
            IN  /\ new.Stats.TotalReactions = old.Stats.TotalReactions
                /\ new.Stats.ReactionCounts = old.Stats.ReactionCounts
                /\ mapped =>
                     /\ new.Reactions = Young(old.Reactions)
                     /\ DOMAIN new.UserReactions = DOMAIN old.UserReactions
                     /\ \A u \in DOMAIN old.UserReactions :
                          new.UserReactions[u] = Young(old.UserReactions[u])]_vars

\* A sweep has just removed a reaction: the log is shorter than the total,
\* and the total still counts both types.
C13_Witness ==
  /\ rlast.op = "cleanup"
  /\ rlast.n >= 1
  /\ \E o \in DOMAIN rheap :
       /\ o \in rswept
       /\ rheap[o].Stats.TotalReactions = 2
       /\ Len(rheap[o].Reactions) < 2
       /\ rheap[o].Stats.ReactionCounts["like"] = 1
       /\ rheap[o].Stats.ReactionCounts["fire"] = 1

\* ---- C14 ---------------------------------------------------------------
\* The place of a status in the forward order.
StatusRank(status) ==
  CASE status = "recording"  -> 1
    [] status = "processing" -> 2
    [] status = "ready"      -> 3
    [] status = "deleted"    -> 4

\* C14: every status change of a VOD record goes forward in the order
\* recording, processing, ready, deleted: no step of StopRecording,
\* processRecording, PublishRecording, DeleteRecording or
\* CleanupExpiredRecordings moves a record to an earlier status or out of
\* deleted.
C14_StatusForwardOnly ==
  [][\A id \in DOMAIN vrecs :
       StatusRank(vrecs'[id].Status) >= StatusRank(vrecs[id].Status)]_vars

\* ---- C15 ---------------------------------------------------------------
\* C15: every VOD record of the catalog that is public is ready, and every
\* one with a publication time is ready and public.
C15_PublicImpliesReady ==
  \A id \in recordings :
    /\ vrecs[id].IsPublic => vrecs[id].Status = "ready"
    /\ vrecs[id].PublishedAt.set =>
         vrecs[id].Status = "ready" /\ vrecs[id].IsPublic

\* ---- C16 ---------------------------------------------------------------
\* C16: StopRecording on an id that is not in the catalog fails with
\* "recording not found"; on a record whose status is not recording it
\* fails too; either way no record changes (status, duration and file size
\* included) and no post-processing task is started.
C16_StopRejected ==
  [][\A id \in 1..MaxRecordings :
       (vlast'.op \in {"stop", "handle_stop"} /\ vlast'.id = id) =>
         /\ id \notin recordings =>
              /\ vlast'.res = "recording not found"
              /\ vrecs' = vrecs
              /\ vtasks' = vtasks
         /\ (id \in recordings /\ vrecs[id].Status # "recording") =>
              /\ vlast'.res = "recording is not in recording status"
              /\ vrecs'[id].Status = vrecs[id].Status
              /\ vrecs'[id].Duration = vrecs[id].Duration
              /\ vrecs'[id].FileSize = vrecs[id].FileSize
              /\ vrecs' = vrecs
              /\ vtasks' = vtasks
              /\ recordings' = recordings]_vars

\* A second stop, with another length, has just been refused on a record
\* that post-processing has made ready.
C16_Witness ==
  /\ vlast.op = "stop"
  /\ vlast.res = "recording is not in recording status"
  /\ vlast.arg = FullDuration
  /\ vlast.id \in recordings
  /\ vrecs[vlast.id].Status = "ready"
  /\ vrecs[vlast.id].Duration = 0
  /\ vtasks = <<>>

\* ---- C17 ---------------------------------------------------------------
\* vod/stop has just been accepted for the record id.
StopAccepted(id) ==
  vlast.op = "handle_stop" /\ vlast.id = id /\ vlast.res = "ok"

ReadyWithURLs(id) ==
  /\ vrecs[id].Status = "ready"
  /\ vrecs[id].VideoURL # <<>>
  /\ vrecs[id].ThumbnailURL # <<>>

\* C17: once vod/stop is accepted for a record, with or without an egress
\* id and whether the encoder's stop succeeded or failed, the record is in
\* processing, and from then on it is eventually ready with a video URL
\* and a thumbnail URL, unless it is taken out of the catalog.
C17_StopLeadsToReady ==
  \A id \in 1..MaxRecordings :
    /\ [](StopAccepted(id) => vrecs[id].Status = "processing")
    /\ StopAccepted(id) ~> (id \notin recordings \/ ReadyWithURLs(id))

\* vod/stop has been accepted although the encoder's stop failed.
C17_Witness ==
  /\ vlast.op = "handle_stop"
  /\ vlast.res = "ok"
  /\ vlast.arg = "failed"
  /\ vrecs[vlast.id].Status = "processing"
  /\ vlast.id \in DOMAIN vtasks

\* ---- C18 ---------------------------------------------------------------
Listed(index, id) ==
  \E st \in DOMAIN index : \E i \in 1..Len(index[st]) : index[st][i] = id

\* C18: when the encoder's start fails, vod/start fails and leaves neither
\* the catalog nor any streamer's index with the reserved id; an id that
\* has left the catalog or the index never comes back.
C18_StartRolledBack ==
  [][\A id \in 1..MaxRecordings :
       /\ (vlast'.op = "handle_start" /\ vlast'.res = "egress_failed"
             /\ vlast'.id = id) =>
            /\ id \notin recordings'
            /\ ~Listed(streamerRecordings', id)
       /\ (id \in DOMAIN vrecs /\ id \notin recordings) =>
            id \notin recordings'
       /\ (id \in DOMAIN vrecs /\ ~Listed(streamerRecordings, id)) =>
            ~Listed(streamerRecordings', id)]_vars

\* The encoder's start has just failed for a reservation that was still in
\* the catalog and in the index.
C18_Witness ==
  /\ vlast.op = "handle_start"
  /\ vlast.res = "egress_failed"
  /\ vrecs[vlast.id].Status = "deleted"
  /\ vlast.id \notin recordings
  /\ ~Listed(streamerRecordings, vlast.id)

\* ---- C19 ---------------------------------------------------------------
\* C19: StartPlaybackSession succeeds exactly when the recording is in the
\* catalog, ready and public.  A success adds one session, for that
\* recording and user, leaves the other sessions alone and adds one to the
\* recording's view count; a failure changes neither the sessions nor any
\* record.
C19_PlaybackStart ==
  [][\A id \in 1..MaxRecordings :
       (vlast'.op = "play" /\ vlast'.id = id) =>
         LET playable == /\ id \in recordings
                         /\ vrecs[id].Status = "ready"
                         /\ vrecs[id].IsPublic
             added    == DOMAIN playbackSessions' \ DOMAIN playbackSessions
         IN  /\ vlast'.res = "ok" <=> playable
             /\ vlast'.res = "ok" =>
                  /\ Cardinality(added) = 1
                  /\ \A sid \in added :
                       /\ playbackSessions'[sid].RecordingID = id
                       /\ playbackSessions'[sid].CurrentPosition = 0
                       /\ ~playbackSessions'[sid].Completed
                  /\ \A sid \in DOMAIN playbackSessions :
                       /\ sid \in DOMAIN playbackSessions'
                       /\ playbackSessions'[sid] = playbackSessions[sid]
                  /\ vrecs'[id].ViewCount = vrecs[id].ViewCount + 1
                  /\ vrecs' = [vrecs EXCEPT ![id].ViewCount = @ + 1]
             /\ vlast'.res # "ok" =>
                  /\ playbackSessions' = playbackSessions
                  /\ vrecs' = vrecs]_vars

\* A session has just been opened on a published recording.
C19_Witness ==
  /\ vlast.op = "play"
  /\ vlast.res = "ok"
  /\ vrecs[vlast.id].ViewCount = 1
  /\ vrecs[vlast.id].IsPublic
  /\ Cardinality(DOMAIN playbackSessions) = 1

\* ---- C20 ---------------------------------------------------------------
DurationOf(recs, session) == recs[session.RecordingID].Duration

\* C20 as stated: completed never goes back to false, and a completed
\* session's position is at least 0.95 of the recording's duration.
C20_CompletedImpliesPosition ==
  [][\A sid \in DOMAIN playbackSessions' :
       LET new == playbackSessions'[sid]
       IN  /\ (sid \in DOMAIN playbackSessions
                 /\ playbackSessions[sid].Completed) => new.Completed
           /\ new.Completed =>
                Watched95(new.CurrentPosition, DurationOf(vrecs', new))]_vars

\* C20, amended: completed never goes back to false, and it becomes true
\* only in a heartbeat that reports a position of at least 0.95 of the
\* duration of the session's recording, which is in the catalog and has a
\* positive duration; later heartbeats may report any position.
C20_CompletedLatched ==
  [][\A sid \in DOMAIN playbackSessions' :
       LET new == playbackSessions'[sid]
           was == sid \in DOMAIN playbackSessions
                    /\ playbackSessions[sid].Completed
       IN  /\ was => new.Completed
           /\ (new.Completed /\ ~was) =>
                /\ vlast'.op = "heartbeat"
                /\ vlast'.id = sid
                /\ vlast'.res = "ok"
                /\ new.CurrentPosition = vlast'.arg
                /\ new.RecordingID \in recordings
                /\ DurationOf(vrecs, new) > 0
                /\ Watched95(vlast'.arg, DurationOf(vrecs, new))]_vars

\* A completed session whose last heartbeat reported a position before
\* 0.95 of the duration.
C20_Witness ==
  \E sid \in DOMAIN playbackSessions :
    /\ playbackSessions[sid].Completed
    /\ vlast.op = "heartbeat"
    /\ vlast.id = sid
    /\ ~Watched95(playbackSessions[sid].CurrentPosition,
                  DurationOf(vrecs, playbackSessions[sid]))

\* ---- C21 ---------------------------------------------------------------
\* C21: in every analytics record the current viewer count is not
\* negative and not above the peak, and the total of joins is not below
\* the unique count.
C21_ViewerCounters ==
  \A r \in DOMAIN streamAnalytics :
    /\ streamAnalytics[r].CurrentViewers >= 0
    /\ streamAnalytics[r].CurrentViewers <= streamAnalytics[r].PeakViewers
    /\ streamAnalytics[r].TotalViewers >= streamAnalytics[r].UniqueViewers

\* A viewer has joined, left, joined again and left again: two joins of
\* one identity, nobody present.
C21_Witness ==
  /\ alast.op = "leave"
  /\ alast.res = "ok"
  /\ streamAnalytics[alast.room].CurrentViewers = 0
  /\ streamAnalytics[alast.room].PeakViewers = 1
  /\ streamAnalytics[alast.room].TotalViewers = 2
  /\ streamAnalytics[alast.room].UniqueViewers = 1

\* ---- C22 ---------------------------------------------------------------
\* C22: when the client has made its five calls (join alice, join bob,
\* join alice, leave alice, join alice) on the started room, the record
\* has total = 4, unique = 2, current = 2 and peak = 2.
C22_ScriptCounts ==
  ascript = Len(ScriptCalls) =>
    /\ streamAnalytics[ScriptRoom].TotalViewers = 4
    /\ streamAnalytics[ScriptRoom].UniqueViewers = 2
    /\ streamAnalytics[ScriptRoom].CurrentViewers = 2
    /\ streamAnalytics[ScriptRoom].PeakViewers = 2

\* C23: a call of the create handler always answers success and leaves
\* the room of its name in place; when the room exists already the engine
\* reports already_exists and no room changes (messages, participants,
\* moderators, bans and settings stay as they were).
C23_CreateIdempotent ==
  [][/\ clast'.op = "handleCreateChatRoom" =>
          /\ clast'.n = 200
          /\ DOMAIN chatRooms' = DOMAIN chatRooms \cup {clast'.room}
     /\ (/\ clast'.op \in {"create", "handleCreateChatRoom"}
         /\ clast'.room \in DOMAIN chatRooms) =>
          /\ clast'.res = "already_exists"
          /\ chatRooms' = chatRooms]_vars

\* A room with a message, a moderator, a ban and settings of its own was
\* created again through the handler.
C23_Witness ==
  /\ clast.op = "handleCreateChatRoom"
  /\ clast.res = "already_exists"
  /\ clast.n = 200
  /\ Len(chatRooms[clast.room].Messages) > 0
  /\ "ann" \in chatRooms[clast.room].Moderators
  /\ "bob" \in DOMAIN chatRooms[clast.room].BannedUsers
  /\ chatRooms[clast.room].Settings # DefaultChatSettings

\* The records of an owner that are in the catalog.
OwnedBy(owner) == {id \in recordings : vrecs[id].StreamerID = owner}

Min2(a, b) == IF a < b THEN a ELSE b

\* C24: a page of ListRecordingsByStreamer(owner, limit, offset) is the
\* owner's records newest first: it holds min(limit, n - offset) records of
\* the owner, recorded_at never increases along it, and at most
\* offset + i - 1 records of the owner are newer than its i-th entry.
C24_NewestFirstPage ==
  vlast.op = "list" =>
    LET a == vlast.arg
        n == Cardinality(OwnedBy(a.owner))
    IN  /\ Len(a.page) = (IF n > a.offset THEN Min2(a.limit, n - a.offset) ELSE 0)
        /\ \A i \in 1..Len(a.page) : a.page[i] \in OwnedBy(a.owner)
        /\ \A i, j \in 1..Len(a.page) :
             i < j => vrecs[a.page[i]].RecordedAt >= vrecs[a.page[j]].RecordedAt
        /\ \A i \in 1..Len(a.page) :
             Cardinality({id \in OwnedBy(a.owner) :
                            vrecs[id].RecordedAt > vrecs[a.page[i]].RecordedAt})
               <= a.offset + i - 1

\* C25: the handlers answer each kind of error with its own status: 401 or
\* 403 when a mute or a ban is asked by someone who is no moderator, 429
\* when a send is refused by the rate limit or by slow mode, 401 when a
\* stream key is absent, inactive or expired.
C25_StatusPerErrorKind ==
  /\ (/\ clast.op \in {"handleMuteParticipant", "handleBanParticipant"}
      /\ clast.res = "not_moderator") => clast.n \in {401, 403}
  /\ (/\ clast.op = "handleSendChatMessage"
      /\ clast.res \in {"rate_limited", "slow_mode"}) => clast.n = 429
  /\ (/\ klast.op = "handleValidateStreamKey"
      /\ klast.res \in {"not_found", "inactive", "expired"}) =>
        klast.status = 401

\* The part of C25 about stream keys alone.
C25_ValidateUnauthorized ==
  (/\ klast.op = "handleValidateStreamKey"
   /\ klast.res \in {"not_found", "inactive", "expired"}) =>
     klast.status = 401

\* C26: whatever the interleaving of the SendReaction calls of one sender
\* to one room, two accepted reactions of the sender are at least the
\* per-second gap apart and the count of the sender's window never exceeds
\* max_per_minute.
C26_LimitsUnderConcurrency ==
  rconfig.set =>
    \A o \in DOMAIN rheap :
      /\ \A i, j \in 1..Len(rheap[o].Reactions) :
           (i < j /\ rheap[o].Reactions[i].UserID = rheap[o].Reactions[j].UserID)
             => rheap[o].Reactions[j].Timestamp - rheap[o].Reactions[i].Timestamp
                  >= MinGap(rconfig.cfg)
      /\ \A u \in DOMAIN rheap[o].RateLimits :
           rheap[o].RateLimits[u].Count <= rconfig.cfg.MaxReactionsPerMinute

\* C27: a goroutine that holds an engine lock and a room lock got the
\* engine lock first, none asks for an engine lock while it holds a room
\* lock, and the goroutines never all wait on each other: while a method is
\* under way, some goroutine inside a method can take its next step.
C27_LockOrderNoDeadlock ==
  /\ \A g \in Goroutines :
       /\ \A i, j \in 1..Len(lheld[g]) :
            (lheld[g][i][2] \in RoomLocks /\ lheld[g][j][2] \in EngineLocks)
              => j < i
       /\ (lpc[g] # <<>> /\ Head(lpc[g])[1] \in {"Lock", "RLock"}
             /\ Head(lpc[g])[2] \in EngineLocks)
            => HeldBy(g) \cap RoomLocks = {}
  /\ (\E g \in Goroutines : lpc[g] # <<>>)
       => \E g \in Goroutines : CanStep(g)

\* CleanupOldReactions holds the engine lock and the lock of a room while
\* another goroutine waits for one of them.
C27_Witness ==
  \E g, h \in Goroutines :
    /\ g # h
    /\ lheld[g] = << <<"w", ReactMu>>, <<"w", ReactRoomMu>> >>
    /\ lpc[h] # <<>>
    /\ ~CanStep(h)

\* C28: every range over a listener registry and every append to one
\* happens while the goroutine holds the lock of the engine.
C28_RegistryUnderEngineLock ==
  \A g \in Goroutines :
    (lpc[g] # <<>> /\ Head(lpc[g])[1] \in {"Read", "Write"})
      => GuardOf(Head(lpc[g])[2]) \in HeldBy(g)

\* bob has a participant record in room r, and it is muted.
Present(r, p) == r \in DOMAIN chatRooms /\ p \in DOMAIN chatRooms[r].Participants
Muted(r, p) == Present(r, p) /\ chatRooms[r].Participants[p].IsMuted

\* A mute by a moderator of a present participant succeeds and sets
\* IsMuted, and a SendMessage of a muted participant fails.
C29_MuteBlocksSends ==
  [][/\ clast'.op = "mute" =>
          /\ (clast'.res = "ok") <=>
               /\ clast'.by \in chatRooms[clast'.room].Moderators
               /\ Present(clast'.room, clast'.who)
          /\ clast'.res = "ok" =>
               chatRooms'[clast'.room].Participants[clast'.who].IsMuted
     /\ (clast'.op = "send" /\ Muted(clast'.room, clast'.who)) =>
          (clast'.res = "muted" /\ chatRooms' = chatRooms)]_vars

\* A mute with a duration is lifted in the end, if the participant is
\* still there.
C29_TimedMuteLifted ==
  \A r \in ChatRoomNames :
    (\E tm \in unmuteTimers : tm.room = r /\ tm.target = "bob")
      ~> (~Present(r, "bob") \/ ~Muted(r, "bob"))

\* A mute without a duration stays.
C29_UntimedMuteStays ==
  \A r \in ChatRoomNames :
    []((clast.op = "mute" /\ clast.res = "ok" /\ clast.n = 0
        /\ clast.room = r /\ clast.who = "bob")
         => [](Present(r, "bob") => Muted(r, "bob")))

\* C29: a mute by a moderator of a present participant sets IsMuted and
\* every SendMessage of the participant fails while it is set; a mute with
\* d > 0 is lifted in the end when the participant is still present, and a
\* mute with d = 0 is never lifted by the engine.
C29_MuteUntilLifted ==
  C29_MuteBlocksSends /\ C29_TimedMuteLifted /\ C29_UntimedMuteStays

\* The leaderboard a room shows is in order, and holds the senders with
\* the most reactions, each with its count.
LeaderboardOf(room) ==
  LET top == room.Stats.TopReactors
      count(u) == Len(room.UserReactions[u])
  IN  /\ Len(top) <= TopLimit
      /\ \A i, j \in 1..Len(top) :
           i < j => /\ top[i].ReactionCount >= top[j].ReactionCount
                    /\ top[i].UserID # top[j].UserID
      /\ \A i \in 1..Len(top) :
           /\ top[i].UserID \in DOMAIN room.UserReactions
           /\ top[i].ReactionCount = count(top[i].UserID)
      /\ Len(top) = Min2(TopLimit, Cardinality(DOMAIN room.UserReactions))
      /\ \A u \in DOMAIN room.UserReactions :
           (\A i \in 1..Len(top) : top[i].UserID # u)
             => \A i \in 1..Len(top) : count(u) <= top[i].ReactionCount

\* C30: after an accepted reaction the leaderboard of the room has at
\* most 10 entries in descending order of count, they are the senders with
\* the highest counts, and it is the one leaderboard of that room state:
\* the order in which the senders were visited does not show in it.
C30_LeaderboardDetermined ==
  [][(rlast'.op = "send" /\ rconfig.cfg.EnableLeaderboard) =>
       LET room == rheap'[rcalls[rlast'.th].obj] IN
       /\ LeaderboardOf(room)
       /\ \A order \in IterationOrders(room.UserReactions) :
            updateTopReactors(room, rconfig.cfg, order)
              = room.Stats.TopReactors]_vars

\* The part of C30 that does not depend on the order of ties.
C30_LeaderboardSorted ==
  [][(rlast'.op = "send" /\ rconfig.cfg.EnableLeaderboard) =>
       LeaderboardOf(rheap'[rcalls[rlast'.th].obj])]_vars

\* The index of each owner lists the stored keys of the owner, each once.
IndexMatchesStore(ks, idx) ==
  \A o \in Streamers :
    /\ \A i, j \in 1..Len(idx[o]) : i # j => idx[o][i] # idx[o][j]
    /\ {idx[o][i] : i \in 1..Len(idx[o])}
         = {k \in DOMAIN ks : ks[k].StreamerID = o}

\* C31: CleanupExpiredKeys removes the stored keys whose expiry lies in
\* the past and no other (keys without an expiry and keys not yet expired
\* stay, revoked or not, and unchanged) and returns their number; after
\* every generate, revoke, delete and sweep the index of each owner lists
\* exactly the stored keys of that owner, each once.
C31_SweepExactIndexConsistent ==
  [][/\ klast'.op = "cleanup" =>
          /\ DOMAIN keys' =
               {k \in DOMAIN keys :
                  ~(keys[k].ExpiresAt.set /\ keys[k].ExpiresAt.at < now)}
          /\ \A k \in DOMAIN keys' : keys'[k] = keys[k]
          /\ klast'.key = Cardinality(DOMAIN keys \ DOMAIN keys')
     /\ IndexMatchesStore(keys', streamerKeys')]_vars

\* A sweep removed one key of two and kept a revoked one.
C31_Witness ==
  /\ klast.op = "cleanup"
  /\ klast.key = 1
  /\ issued = 2
  /\ \E k \in DOMAIN keys : ~keys[k].IsActive
  /\ IndexMatchesStore(keys, streamerKeys)

\* C32: a join adds one to unique_viewers exactly when the identity has
\* never left the room before; an identity that has left once is never
\* counted as unique again.
C32_UniqueIffNeverLeft ==
  [][(alast'.op = "join" /\ alast'.res = "ok") =>
       streamAnalytics'[alast'.room].UniqueViewers =
         streamAnalytics[alast'.room].UniqueViewers
           + (IF <<alast'.room, alast'.who>> \in aleft THEN 0 ELSE 1)]_vars

\* The counters and the timeline that the events of a room write.
EventCounters(a) ==
  <<a.CurrentViewers, a.PeakViewers, a.TotalViewers, a.UniqueViewers,
    a.TotalMessages, a.TotalReactions, a.ReactionBreakdown, a.ViewerTimeline>>

\* C33: StartStreamAnalytics fails while a record of the room exists and
\* leaves it alone, and once StopStreamAnalytics has finalized a record no
\* join, leave, chat message, reaction or sampling tick changes its viewer
\* counters, its message and reaction totals or its viewer timeline.
C33_EventsOnlyWhileRunning ==
  [][/\ (alast'.op = "start" /\ alast'.room \in DOMAIN streamAnalytics) =>
          /\ alast'.res = "analytics already started for this stream"
          /\ streamAnalytics' = streamAnalytics
     /\ \A r \in DOMAIN streamAnalytics \cap DOMAIN streamAnalytics' :
          streamAnalytics[r].EndTime.set =>
            EventCounters(streamAnalytics'[r])
              = EventCounters(streamAnalytics[r])]_vars

\* The first part of C33 alone.
C33_StartRefused ==
  [][(alast'.op = "start" /\ alast'.room \in DOMAIN streamAnalytics) =>
       /\ alast'.res = "analytics already started for this stream"
       /\ streamAnalytics' = streamAnalytics]_vars

\* The ban of p in a room has not expired at time t.
BanInForce(room, p, t) ==
  p \in DOMAIN room.BannedUsers /\ t < room.BannedUsers[p]

\* C34: while the ban of an identity in a room has not expired, the
\* identity is not in the participants of the room and no message of the
\* identity is appended to the log of the room, whatever it tries.
C34_BannedStaysOut ==
  [][\A r \in DOMAIN chatRooms \cap DOMAIN chatRooms', p \in ChatUsers :
       (BanInForce(chatRooms[r], p, now) /\ BanInForce(chatRooms'[r], p, now'))
         => /\ p \notin DOMAIN chatRooms'[r].Participants
            /\ \A i \in (Len(chatRooms[r].Messages) + 1)
                          ..Len(chatRooms'[r].Messages) :
                 chatRooms'[r].Messages[i].SenderID # p]_vars

\* The part of C34 about JoinChatRoom: a join under a ban fails and leaves
\* the room as it is.
C34_BannedJoinFails ==
  [][\A p \in ChatUsers :
       (JoinStep(p) /\ BanInForce(RoomBefore, p, now)) =>
         (clast'.res = "banned" /\ RoomAfter = RoomBefore)]_vars

\* C35: in every room the moderators are participants, and an identity is
\* in the moderator set exactly when its participant record has the
\* moderator flag; so an identity that left, was banned or joined again
\* without the flag has no moderator rights.
C35_ModeratorsMatchRecords ==
  \A r \in DOMAIN chatRooms, p \in ChatUsers :
    p \in chatRooms[r].Moderators
      <=> /\ p \in DOMAIN chatRooms[r].Participants
          /\ chatRooms[r].Participants[p].IsModerator

\* The part of C35 about LeaveChatRoom: after a leave that succeeds the
\* identity is in neither set.
C35_LeaveDropsRights ==
  [][(clast'.op = "leave" /\ clast'.res = "ok") =>
       /\ clast'.who \notin RoomAfter.Moderators
       /\ clast'.who \notin DOMAIN RoomAfter.Participants]_vars

\* SendMessage(r, p) has just succeeded.
SentBy(r, p) ==
  clast.op = "send" /\ clast.res = "ok" /\ clast.room = r /\ clast.who = p

\* C36: a mute lasts at least its duration: after MuteParticipant of a
\* target with duration d succeeds at time t, no SendMessage of the target
\* succeeds before t + d, and none ever when d = 0, whatever other mutes,
\* timers, leaves, joins and sends come in between.
C36_MuteLastsItsDuration ==
  \A r \in ChatRoomNames, p \in ChatUsers :
    (SentBy(r, p) /\ muteUntil[p].set) =>
      (~muteUntil[p].forever /\ now >= muteUntil[p].at)

\* The part of C36 that needs no history: the send of a participant whose
\* record is muted fails.
C36_MutedRecordBlocks ==
  [][(clast'.op = "send" /\ Muted(clast'.room, clast'.who)) =>
       clast'.res = "muted"]_vars

\* The sessions of room r whose LeftAt is not set.
OpenSessions(r) ==
  IF r \in DOMAIN viewerSessions
  THEN {v \in DOMAIN viewerSessions[r] : ~viewerSessions[r][v].LeftAt.set}
  ELSE {}

\* C37: between the start and the stop of a room's analytics, the current
\* viewer count of the record is the number of the room's sessions that
\* have not left, also after a join of an identity that is present and a
\* leave of one that has left.
C37_CurrentIsOpenSessions ==
  \A r \in DOMAIN streamAnalytics :
    ~streamAnalytics[r].EndTime.set =>
      streamAnalytics[r].CurrentViewers = Cardinality(OpenSessions(r))

\* The recording ids in the index of a streamer.
IndexedBy(streamer) ==
  IF streamer \in DOMAIN streamerRecordings
  THEN {streamerRecordings[streamer][i] :
          i \in 1..Len(streamerRecordings[streamer])}
  ELSE {}

\* C38: every recording id in the index of a streamer is the id of a
\* record of the catalog, and every record of the catalog is in the index
\* of its streamer, after any run of StartRecording, DeleteRecording and
\* CleanupExpiredRecordings.
C38_IndexMatchesCatalog ==
  /\ \A st \in DOMAIN streamerRecordings : IndexedBy(st) \subseteq recordings
  /\ \A id \in recordings : id \in IndexedBy(vrecs[id].StreamerID)

\* The half of C38 that holds: a record of the catalog is in the index of
\* its streamer.
C38_CatalogIsIndexed ==
  \A id \in recordings : id \in IndexedBy(vrecs[id].StreamerID)

\* Goroutine g is about to read or write object x of the analytics
\* engine.
AtAccess(g, kind, x) ==
  lpc[g] # <<>> /\ Head(lpc[g]) = <<kind, x>>

\* No goroutine writes an object of the analytics engine while another
\* reads or writes it.
C39_NoWriteRace ==
  \A g, h \in Goroutines, x \in AnalyticsState :
    (g # h /\ AtAccess(g, "Write", x))
      => ~(AtAccess(h, "Write", x) \/ AtAccess(h, "Read", x))

\* C39: every write to the state of the analytics engine happens while
\* the goroutine holds as.mu exclusively, and a goroutine that holds it
\* shared (GetStreamAnalytics, GetViewerSessions) writes nothing, so no
\* write runs next to another access of the same object.
C39_WritesUnderExclusiveLock ==
  /\ \A g \in Goroutines, x \in AnalyticsState :
       AtAccess(g, "Write", x) => g \in Writers(AnalyticsMu)
  /\ C39_NoWriteRace

\* The room objects that a name of the map points to.
MappedObjs == {rrooms[r] : r \in DOMAIN rrooms}

\* C40: the lazy creation of a reaction room is free of races: whatever
\* the interleaving of the SendReaction calls that find a room missing,
\* one room object exists for the name, every call goes on with that
\* object, and every accepted reaction is in the log of the room that the
\* map, and so every read, returns.
C40_OneRoomPerName ==
  /\ \A i \in 1..Len(rheap) : i \in MappedObjs
  /\ Len(rheap) = Cardinality(DOMAIN rrooms)
  /\ \A th \in Threads :
       rcalls[th].pc \in {"check", "append"} =>
         /\ rcalls[th].room \in DOMAIN rrooms
         /\ rcalls[th].obj = rrooms[rcalls[th].room]
  /\ \A r \in DOMAIN rrooms :
       Len(rheap[rrooms[r]].Reactions) = Accepted(rheap)

\* Both calls found the room missing; one has created it and its reaction
\* is in the log, the other is at the second lookup.
C40_Witness ==
  \E th \in Threads :
    /\ rcalls[th].pc = "create"
    /\ rcalls[th].room \in DOMAIN rrooms
    /\ rlast.op = "send" /\ rlast.th # th
    /\ Len(rheap[rrooms[rcalls[th].room]].Reactions) = 1

====
